---------------------------- MODULE Spec2Model ----------------------------
(***************************************************************************)
(* Model of the agent process orchestrator runContainerAgent               *)
(* (src/src/channels/whatsapp.ts, lines 599-963): the stdout data handler  *)
(* with its marker-pair scanner, the onOutput promise chain, the timeout   *)
(* timer with its SIGTERM / SIGKILL escalation, and the close and error    *)
(* handlers that resolve the promise returned to the caller; and of the    *)
(* outgoing message queue of WhatsAppChannel (same file, lines 33-453):    *)
(* sendMessage, the connection.update handler and flushOutgoingQueue.      *)
(*                                                                         *)
(* Text is a sequence of abstract characters.  The two markers keep the    *)
(* overlap structure of the real ones: the real start marker ends with     *)
(* "---" and the real end marker begins with "---", so the tail of one     *)
(* marker can be the head of the other; here each marker is dash, letter,  *)
(* dash.  "a", "b", "c" each stand for the text of one complete JSON       *)
(* document, " " and "\n" are white space, "x" is any other character.     *)
(***************************************************************************)
EXTENDS Integers, Sequences, FiniteSets, TLC

\* Bounds of the model.
MaxPieces == 3          \* pieces of worker output text in SpecParse
MaxMsgs == 3            \* sendMessage calls made on the channel
MaxFailures == 1        \* transport sends the environment lets fail
MaxLookups == 3         \* translateJid calls made on the channel
MaxJidLen == 2          \* characters of a chatJid given to prepareIpcDirs
MaxTgConnects == 2      \* connect() calls made on the Telegram channel
MaxTgMsgs == 2          \* sendMessage calls made on the Telegram channel
MaxTgUpdates == 1       \* updates Telegram has for the bot
MaxConfigTicks == 5     \* largest configured timeout, in ticks
MaxVoicePending == 1    \* voice messages being transcribed at one time

\* Program constants, scaled: one tick of model time is 15 s.
timeoutMs == 3          \* Math.max(configTimeout, IDLE_TIMEOUT + 30_000)
ForceKillDelay == 1     \* setTimeout(..., 15000) in killOnTimeout
CONTAINER_MAX_OUTPUT_SIZE == 14
StderrTailLen == 2      \* stderr.slice(-200), one character standing for 100

OUTPUT_START_MARKER == <<"-", "S", "-">>
OUTPUT_END_MARKER == <<"-", "E", "-">>

None == "none"

\* no ContainerOutput / no terminal result (a record, to compare with records)
NoOutput == [status |-> None, result |-> None, newSessionId |-> None]
\* error is the kind of error message, detail the text appended to it
NoResult ==
  [status |-> None, result |-> None, newSessionId |-> None, error |-> None,
   detail |-> <<>>]

-----------------------------------------------------------------------------
(* String primitives of the JavaScript runtime, 0-based as in the source.  *)

Min(a, b) == IF a < b THEN a ELSE b

\* s.slice(a, b) for 0 <= a, 0 <= b
Slice(s, a, b) ==
  IF b <= a \/ a >= Len(s) THEN <<>> ELSE SubSeq(s, a + 1, Min(b, Len(s)))

\* s.slice(a)
SliceFrom(s, a) == Slice(s, a, Len(s))

\* s.slice(-k) for k > 0: the last k characters, all of s when it is shorter
SliceLast(s, k) == IF Len(s) <= k THEN s ELSE SubSeq(s, Len(s) - k + 1, Len(s))

MatchAt(s, pat, i) ==
  /\ i + Len(pat) <= Len(s)
  /\ \A k \in 1..Len(pat) : s[i + k] = pat[k]

\* s.indexOf(pat, from): the least index >= from where pat occurs, or -1
RECURSIVE IndexOf(_, _, _)
IndexOf(s, pat, from) ==
  IF from + Len(pat) > Len(s) THEN -1
  ELSE IF MatchAt(s, pat, from) THEN from
  ELSE IndexOf(s, pat, from + 1)

IsSpace(c) == c \in {" ", "\n"}

RECURSIVE TrimStart(_)
TrimStart(s) ==
  IF s # <<>> /\ IsSpace(s[1]) THEN TrimStart(Tail(s)) ELSE s

RECURSIVE TrimEnd(_)
TrimEnd(s) ==
  IF s # <<>> /\ IsSpace(s[Len(s)]) THEN TrimEnd(SubSeq(s, 1, Len(s) - 1)) ELSE s

\* s.trim()
Trim(s) == TrimEnd(TrimStart(s))

\* The JSON documents of the model: the characters that are one document.
JsonDocs == {"a", "b", "c"}

\* JSON.parse(str) does not throw: one document, white space around it allowed
JsonValid(str) == Len(Trim(str)) = 1 /\ Trim(str)[1] \in JsonDocs

\* JSON.parse(str) of a valid text: the ContainerOutput it denotes.
\* "a" and "c" carry a newSessionId, "b" carries none.
JsonParse(str) ==
  LET d == Trim(str)[1] IN
  [status |-> "success",
   result |-> d,
   newSessionId |-> CASE d = "a" -> "s1" [] d = "c" -> "s2" [] OTHER -> None]


-----------------------------------------------------------------------------
(* The marker-pair scan loop of the stdout data handler (lines 708-731).   *)

\* Variants of the scan loop with a plausible defect each.
\* The buffer is cleared when it holds no start marker.
RECURSIVE ScanLoop_DropsWithoutStart(_)
ScanLoop_DropsWithoutStart(buf) ==
  LET startIdx == IndexOf(buf, OUTPUT_START_MARKER, 0) IN
  IF startIdx = -1 THEN [out |-> <<>>, rest |-> <<>>]
  ELSE
    LET endIdx == IndexOf(buf, OUTPUT_END_MARKER, startIdx) IN
    IF endIdx = -1 THEN [out |-> <<>>, rest |-> buf]
    ELSE
      LET jsonStr == Trim(Slice(buf, startIdx + Len(OUTPUT_START_MARKER), endIdx))
          more == ScanLoop_DropsWithoutStart(
                    SliceFrom(buf, endIdx + Len(OUTPUT_END_MARKER)))
      IN [out |-> <<[ok |-> JsonValid(jsonStr), str |-> jsonStr]>> \o more.out,
          rest |-> more.rest]

\* The end marker is searched from the start of the buffer.
RECURSIVE ScanLoop_EndFromZero(_)
ScanLoop_EndFromZero(buf) ==
  LET startIdx == IndexOf(buf, OUTPUT_START_MARKER, 0) IN
  IF startIdx = -1 THEN [out |-> <<>>, rest |-> buf]
  ELSE
    LET endIdx == IndexOf(buf, OUTPUT_END_MARKER, 0) IN
    IF endIdx = -1 THEN [out |-> <<>>, rest |-> buf]
    ELSE
      LET jsonStr == Trim(Slice(buf, startIdx + Len(OUTPUT_START_MARKER), endIdx))
          more == ScanLoop_EndFromZero(
                    SliceFrom(buf, endIdx + Len(OUTPUT_END_MARKER)))
      IN [out |-> <<[ok |-> JsonValid(jsonStr), str |-> jsonStr]>> \o more.out,
          rest |-> more.rest]

\* A JSON.parse failure leaves the loop.
RECURSIVE ScanLoop_AbortOnMalformed(_)
ScanLoop_AbortOnMalformed(buf) ==
  LET startIdx == IndexOf(buf, OUTPUT_START_MARKER, 0) IN
  IF startIdx = -1 THEN [out |-> <<>>, rest |-> buf]
  ELSE
    LET endIdx == IndexOf(buf, OUTPUT_END_MARKER, startIdx) IN
    IF endIdx = -1 THEN [out |-> <<>>, rest |-> buf]
    ELSE
      LET jsonStr == Trim(Slice(buf, startIdx + Len(OUTPUT_START_MARKER), endIdx))
          after == SliceFrom(buf, endIdx + Len(OUTPUT_END_MARKER))
          more == IF JsonValid(jsonStr) THEN ScanLoop_AbortOnMalformed(after)
                  ELSE [out |-> <<>>, rest |-> after]
      IN [out |-> <<[ok |-> JsonValid(jsonStr), str |-> jsonStr]>> \o more.out,
          rest |-> more.rest]

\* ScanLoop(buf) runs the while loop on parseBuffer = buf.  It returns the
\* pairs it consumed, in order, each with the trimmed text between its
\* markers and whether JSON.parse accepted it, and the buffer left over.
RECURSIVE ScanLoop(_)
ScanLoop(buf) ==
  LET startIdx == IndexOf(buf, OUTPUT_START_MARKER, 0) IN
  IF startIdx = -1 THEN [out |-> <<>>, rest |-> buf]
  ELSE
    LET endIdx == IndexOf(buf, OUTPUT_END_MARKER, startIdx) IN
    IF endIdx = -1 THEN [out |-> <<>>, rest |-> buf]
    ELSE
      LET jsonStr == Trim(Slice(buf, startIdx + Len(OUTPUT_START_MARKER), endIdx))
          more == ScanLoop(SliceFrom(buf, endIdx + Len(OUTPUT_END_MARKER)))
      IN [out |-> <<[ok |-> JsonValid(jsonStr), str |-> jsonStr]>> \o more.out,
          rest |-> more.rest]

\* The ContainerOutputs of the pairs JSON.parse accepted, in order.
ParsedOf(out) ==
  LET good == SelectSeq(out, LAMBDA it : it.ok)
  IN [i \in 1..Len(good) |-> JsonParse(good[i].str)]

\* if (parsed.newSessionId) newSessionId = parsed.newSessionId, over docs in order
RECURSIVE LastSessionId(_, _)
LastSessionId(cur, docs) ==
  IF docs = <<>> THEN cur
  ELSE LastSessionId(IF Head(docs).newSessionId # None
                       THEN Head(docs).newSessionId ELSE cur,
                     Tail(docs))

-----------------------------------------------------------------------------
(* Legacy mode parse of the accumulated stdout (lines 907-950).            *)

\* lines[lines.length - 1] of s.split('\n')
RECURSIVE LastLine(_)
LastLine(s) ==
  LET nl == IndexOf(s, <<"\n">>, 0)
  IN IF nl = -1 THEN s ELSE LastLine(SliceFrom(s, nl + 1))

ParseError ==
  [status |-> "error", result |-> None, newSessionId |-> None, error |-> "parse",
   detail |-> <<>>]

WithNoError(doc) ==
  [status |-> doc.status, result |-> doc.result,
   newSessionId |-> doc.newSessionId, error |-> None, detail |-> <<>>]

\* Variant with a defect: without a marker pair the whole trimmed text is
\* parsed, not its last line.
LegacyParse_WholeText(out) ==
  LET startIdx == IndexOf(out, OUTPUT_START_MARKER, 0)
      endIdx == IndexOf(out, OUTPUT_END_MARKER, 0)
      jsonLine == IF startIdx # -1 /\ endIdx # -1 /\ endIdx > startIdx
                    THEN Trim(Slice(out, startIdx + Len(OUTPUT_START_MARKER), endIdx))
                    ELSE Trim(out)
  IN IF JsonValid(jsonLine) THEN WithNoError(JsonParse(jsonLine)) ELSE ParseError

LegacyParse(out) ==
  LET startIdx == IndexOf(out, OUTPUT_START_MARKER, 0)
      endIdx == IndexOf(out, OUTPUT_END_MARKER, 0)
      jsonLine == IF startIdx # -1 /\ endIdx # -1 /\ endIdx > startIdx
                    THEN Trim(Slice(out, startIdx + Len(OUTPUT_START_MARKER), endIdx))
                    ELSE LastLine(Trim(out))
  IN IF JsonValid(jsonLine) THEN WithNoError(JsonParse(jsonLine)) ELSE ParseError

-----------------------------------------------------------------------------
VARIABLES
  onOutput,           \* a streaming callback is registered
  agent,              \* the child process: "spawnfail", "running", "exited", "closed"
  exitCode,           \* the code the close event carries
  wout,               \* text the worker has still to hand to the stdout pipe
  fed,                \* all text the stdout data handler has received
  stdout,             \* captured stdout
  stdoutTruncated,
  parseBuffer,
  framed,             \* the marker pairs the scan loop has consumed, in order
  newSessionId,
  hadStreamingOutput,
  timedOut,
  timeout,            \* ticks until the timeout timer fires, -1 when not armed
  forceKill,          \* ticks until each pending force-kill timer fires
  killed,             \* agent.killed
  signals,            \* the signals delivered to the live process, in order
  graceExpiredAlive,  \* a force-kill timer fired while the process was running
  chainQ,             \* outputs whose onOutput call waits on outputChain
  inflight,           \* the output whose onOutput promise is pending
  chainState,         \* outputChain: "ok" or "rejected"
  called,             \* outputs onOutput was invoked with, in order
  delivered,          \* outputs whose onOutput promise fulfilled, in order
  skipped,            \* outputs whose then-handler a rejected chain passed over
  pendingResolve,     \* terminal result queued behind outputChain
  result,             \* the value the returned promise settled with
  resolveCalls,       \* every value resolve() was called with, in order
  runLog,             \* run records written to the logs directory
  sinceSpawn,         \* ticks since spawn, saturating
  sinceEvent,         \* ticks since the later of spawn and the last parsed event
  resumed,            \* a pair was completed whose start marker an earlier chunk left buffered
  outputAtTimeout,    \* hadStreamingOutput when the timer first fired, "unset" before
  werr,               \* text the worker has still to hand to the stderr pipe
  stderr,             \* captured stderr
  stderrTruncated,
  fedErr,             \* all text the stderr data handler has received
  input,              \* the ContainerInput object of the caller
  stdinWritten,       \* what has been written to the worker's stdin, in order
  lidToPhoneMap,      \* LID user -> phone JID
  lookups,            \* the translateJid calls so far, in call order
  resolverCalls,      \* the ids getPNForLID was called with, in call order
  ipcDirs,            \* what prepareIpcDirs returned to each of two invocations
  tgBot,              \* TelegramChannel.bot: 0 is null, k the Bot of the k-th connect
  tgStopping,         \* TelegramChannel.stopping
  tgOffset,           \* TelegramChannel.offset
  tgLoops,            \* where the k-th connect() call and its pollLoop stand
  tgCalls,            \* the TelegramChannel.sendMessage calls so far
  tgDelivered,        \* the texts the Telegram API accepted, in order
  timeoutConfig,      \* group.containerConfig?.timeout, CONTAINER_TIMEOUT, IDLE_TIMEOUT
  armedTimeout,       \* the duration the timeout timer was armed with, if it was
  onFirstOpen,        \* the first socket's handler still holds connect()'s resolve
  sockIsFirst,        \* this.sock is the socket made by connect() itself
  connectResolves,    \* how often the resolve of connect()'s promise was called
  everOpened,         \* an 'open' event has been handled
  registeredGroups,   \* the keys of what opts.registeredGroups() returns now
  voicePending,       \* voice messages past the registry check, in transcription
  lastOnMessage,      \* the last opts.onMessage call, if there was one
  lastDropped         \* the last message a handler ended without forwarding

\* The WhatsApp channel (class WhatsAppChannel, lines 33-453).
VARIABLES
  ASSISTANT_HAS_OWN_NUMBER,  \* configuration, fixed for the life of the process
  processUp,          \* FALSE once process.exit has been called
  connected,
  outgoingQueue,
  flushing,
  accepted,           \* the item of each sendMessage call made, in call order
  returned,           \* items whose sendMessage call has returned normally
  directSends,        \* items whose sock.sendMessage, called by sendMessage, is pending
  drainSends,         \* items whose sock.sendMessage, called by a drain, is pending
  handed,             \* every sock.sendMessage call made, in order, with its caller
  sentOk,             \* items whose sock.sendMessage promise fulfilled, in order
  enqueued,           \* every item pushed on outgoingQueue, in order
  busyOpen,           \* the latest step was an 'open' event that found a drain in flight
  failuresLeft        \* transport failures the environment may still produce

runVars == <<onOutput, agent, exitCode, wout, fed, stdout, stdoutTruncated,
             parseBuffer, framed, newSessionId, hadStreamingOutput, timedOut,
             timeout, forceKill, killed, signals, graceExpiredAlive, chainQ,
             inflight, chainState, called, delivered, skipped, pendingResolve,
             result, resolveCalls, runLog, sinceSpawn, sinceEvent, resumed,
             outputAtTimeout>>

stderrVars == <<werr, stderr, stderrTruncated, fedErr>>

inputVars == <<input, stdinWritten>>

\* the variables no action of the agent run or of the outgoing queue changes
lookupVars == <<lookups, resolverCalls>>

telegramVars == <<tgBot, tgStopping, tgOffset, tgLoops, tgCalls, tgDelivered>>

configVars == <<timeoutConfig, armedTimeout>>

connectVars == <<onFirstOpen, sockIsFirst, connectResolves, everOpened>>

inboundVars == <<registeredGroups, voicePending, lastOnMessage, lastDropped>>

extVars == <<inputVars, lidToPhoneMap, lookupVars, ipcDirs, telegramVars,
             configVars, connectVars, inboundVars>>

channelVars == <<ASSISTANT_HAS_OWN_NUMBER, processUp, connected, outgoingQueue,
                 flushing, accepted, returned, directSends, drainSends, handed,
                 sentOk, enqueued, busyOpen, failuresLeft>>

vars == <<runVars, stderrVars, channelVars, extVars>>

Saturate(n) == Min(n, timeoutMs + 2)

-----------------------------------------------------------------------------
(* Terminal results (the objects handed to resolve).                       *)

TimeoutError ==
  [status |-> "error", result |-> None, newSessionId |-> None, error |-> "timeout",
   detail |-> <<>>]

\* Variant with a defect: the whole captured stderr goes into the message.
ExitError_WholeStderr ==
  [status |-> "error", result |-> None, newSessionId |-> None, error |-> "exit",
   detail |-> stderr]

\* error: `Agent exited with code ${code}: ${stderr.slice(-200)}`
ExitError ==
  [status |-> "error", result |-> None, newSessionId |-> None, error |-> "exit",
   detail |-> SliceLast(stderr, StderrTailLen)]

SpawnError ==
  [status |-> "error", result |-> None, newSessionId |-> None, error |-> "spawn",
   detail |-> <<>>]

\* { status: 'success', result: null, newSessionId }
StreamSuccess(sid) ==
  [status |-> "success", result |-> None, newSessionId |-> sid, error |-> None,
   detail |-> <<>>]

\* resolve(r) of the returned promise: only the first call settles it
Resolve(r) ==
  /\ result' = IF result = NoResult THEN r ELSE result
  /\ resolveCalls' = Append(resolveCalls, r)

\* subprocess.kill(sig) of the Node runtime: the signal is sent, and
\* agent.killed set, only while the process has not exited
AgentKill(sig) ==
  /\ signals' = IF agent = "running" THEN Append(signals, sig) ELSE signals
  /\ killed' = (killed \/ agent = "running")

-----------------------------------------------------------------------------
(* agent.stdout.on('data') (lines 688-733), for the chunk made of the      *)
(* next n characters of the worker's output.                               *)

\* Variant with a defect: the chunk is kept whole, whatever the ceiling.
CaptureStdout_NoCeiling(chunk) ==
  /\ stdout' = stdout \o chunk
  /\ UNCHANGED stdoutTruncated

\* lines 691-703: capture up to the ceiling
CaptureStdout(chunk) ==
  IF ~stdoutTruncated
    THEN LET remaining == CONTAINER_MAX_OUTPUT_SIZE - Len(stdout) IN
         IF Len(chunk) > remaining
           THEN /\ stdout' = stdout \o Slice(chunk, 0, remaining)
                /\ stdoutTruncated' = TRUE
           ELSE /\ stdout' = stdout \o chunk
                /\ UNCHANGED stdoutTruncated
    ELSE UNCHANGED <<stdout, stdoutTruncated>>

\* Variant with a defect: the pending timer is left as it is.
ResetTimeout_KeepsDeadline == timeout

\* resetTimeout (lines 774-777): the timer is cleared and armed afresh
ResetTimeout == timeoutMs

\* outputChain = outputChain.then(() => onOutput(parsed)), for docs in order:
\* the handlers queue behind the chain; a rejected chain passes them over
ChainThen(docs) ==
  IF chainState = "ok"
    THEN /\ chainQ' = chainQ \o docs
         /\ UNCHANGED skipped
    ELSE /\ skipped' = skipped \o docs
         /\ UNCHANGED chainQ

\* Variant with a defect: any chunk restarts the timer, event or not.
ScanStdout_AnyOutputResets(chunk) ==
  IF onOutput
    THEN LET scan == ScanLoop(parseBuffer \o chunk)
             docs == ParsedOf(scan.out)
         IN /\ parseBuffer' = scan.rest
            /\ framed' = framed \o scan.out
            /\ newSessionId' = LastSessionId(newSessionId, docs)
            /\ hadStreamingOutput' = (hadStreamingOutput \/ docs # <<>>)
            /\ timeout' = ResetTimeout
            /\ sinceEvent' = IF docs # <<>> THEN 0 ELSE sinceEvent
            /\ resumed' = resumed
            /\ ChainThen(docs)
    ELSE UNCHANGED <<parseBuffer, framed, newSessionId, hadStreamingOutput,
                     timeout, sinceEvent, resumed, chainQ, skipped>>

\* Variant with a defect: once the captured text is cut the scan is skipped.
ScanStdout_SkipsOnceTruncated(chunk) ==
  IF onOutput /\ ~stdoutTruncated'
    THEN LET scan == ScanLoop(parseBuffer \o chunk)
             docs == ParsedOf(scan.out)
         IN /\ parseBuffer' = scan.rest
            /\ framed' = framed \o scan.out
            /\ newSessionId' = LastSessionId(newSessionId, docs)
            /\ hadStreamingOutput' = (hadStreamingOutput \/ docs # <<>>)
            /\ timeout' = IF docs # <<>> THEN ResetTimeout ELSE timeout
            /\ sinceEvent' = IF docs # <<>> THEN 0 ELSE sinceEvent
            /\ resumed' = resumed
            /\ ChainThen(docs)
    ELSE UNCHANGED <<parseBuffer, framed, newSessionId, hadStreamingOutput,
                     timeout, sinceEvent, resumed, chainQ, skipped>>

\* lines 705-732: the scan of parseBuffer
ScanStdout(chunk) ==
  IF onOutput
    THEN LET scan == ScanLoop(parseBuffer \o chunk)
             docs == ParsedOf(scan.out)
         IN /\ parseBuffer' = scan.rest
            /\ framed' = framed \o scan.out
            /\ newSessionId' = LastSessionId(newSessionId, docs)
            /\ hadStreamingOutput' = (hadStreamingOutput \/ docs # <<>>)
            /\ timeout' = IF docs # <<>> THEN ResetTimeout ELSE timeout
            /\ sinceEvent' = IF docs # <<>> THEN 0 ELSE sinceEvent
            /\ resumed' = (resumed \/ (scan.out # <<>> /\
                               IndexOf(parseBuffer, OUTPUT_START_MARKER, 0) # -1))
            /\ ChainThen(docs)
    ELSE UNCHANGED <<parseBuffer, framed, newSessionId, hadStreamingOutput,
                     timeout, sinceEvent, resumed, chainQ, skipped>>

StdoutData(n) ==
  /\ agent = "running"
  /\ n \in 1..Len(wout)
  /\ LET chunk == SubSeq(wout, 1, n) IN
       /\ wout' = SliceFrom(wout, n)
       /\ fed' = fed \o chunk
       /\ CaptureStdout(chunk)
       /\ ScanStdout(chunk)
  /\ UNCHANGED <<onOutput, agent, exitCode, timedOut, forceKill, killed, signals,
                 graceExpiredAlive, inflight, chainState, called, delivered,
                 pendingResolve, result, resolveCalls, runLog, sinceSpawn, outputAtTimeout>>
  /\ UNCHANGED <<stderrVars, channelVars, extVars>>

-----------------------------------------------------------------------------
(* agent.stderr.on('data') (lines 735-753), for the chunk made of the next *)
(* n characters the worker writes to stderr: logged line by line, then     *)
(* captured up to the ceiling.                                             *)

StderrData(n) ==
  /\ agent = "running"
  /\ n \in 1..Len(werr)
  /\ LET chunk == SubSeq(werr, 1, n)
         remaining == CONTAINER_MAX_OUTPUT_SIZE - Len(stderr)
     IN /\ werr' = SliceFrom(werr, n)
        /\ fedErr' = fedErr \o chunk
        /\ IF stderrTruncated
             THEN UNCHANGED <<stderr, stderrTruncated>>
             ELSE IF Len(chunk) > remaining
                    THEN /\ stderr' = stderr \o Slice(chunk, 0, remaining)
                         /\ stderrTruncated' = TRUE
                    ELSE /\ stderr' = stderr \o chunk
                         /\ UNCHANGED stderrTruncated
  /\ UNCHANGED <<runVars, channelVars, extVars>>

-----------------------------------------------------------------------------
(* Timers.                                                                 *)

\* killOnTimeout (lines 760-770), run when the timeout timer fires
KillOnTimeout ==
  /\ timeout = 0
  /\ timedOut' = TRUE
  /\ outputAtTimeout' = IF timedOut THEN outputAtTimeout
                         ELSE IF hadStreamingOutput THEN "yes" ELSE "no"
  /\ AgentKill("SIGTERM")
  /\ forceKill' = forceKill \cup {ForceKillDelay}
  /\ timeout' = -1
  /\ UNCHANGED <<onOutput, agent, exitCode, wout, fed, stdout, stdoutTruncated,
                 parseBuffer, framed, newSessionId, hadStreamingOutput,
                 graceExpiredAlive, chainQ, inflight, chainState, called,
                 delivered, skipped, pendingResolve, result, resolveCalls,
                 runLog, sinceSpawn, sinceEvent, resumed>>
  /\ UNCHANGED <<stderrVars, channelVars, extVars>>

\* the force-kill timer callback (lines 765-769)
ForceKillFires ==
  /\ 0 \in forceKill
  /\ forceKill' = forceKill \ {0}
  /\ graceExpiredAlive' = (graceExpiredAlive \/ agent = "running")
  /\ IF ~killed THEN AgentKill("SIGKILL") ELSE UNCHANGED <<signals, killed>>
  /\ UNCHANGED <<onOutput, agent, exitCode, wout, fed, stdout, stdoutTruncated,
                 parseBuffer, framed, newSessionId, hadStreamingOutput, timedOut,
                 timeout, chainQ, inflight, chainState, called, delivered,
                 skipped, pendingResolve, result, resolveCalls, runLog,
                 sinceSpawn, sinceEvent, resumed,
                 outputAtTimeout>>
  /\ UNCHANGED <<stderrVars, channelVars, extVars>>

\* one tick of time passes: no armed timer is due, every armed timer advances
Tick ==
  /\ agent # "spawnfail"
  /\ timeout # 0 /\ 0 \notin forceKill
  /\ timeout > 0 \/ forceKill # {}
  /\ timeout' = IF timeout > 0 THEN timeout - 1 ELSE timeout
  /\ forceKill' = {t - 1 : t \in forceKill}
  /\ sinceSpawn' = Saturate(sinceSpawn + 1)
  /\ sinceEvent' = Saturate(sinceEvent + 1)
  /\ UNCHANGED <<onOutput, agent, exitCode, wout, fed, stdout, stdoutTruncated,
                 parseBuffer, framed, newSessionId, hadStreamingOutput, timedOut,
                 killed, signals, graceExpiredAlive, chainQ, inflight, chainState,
                 called, delivered, skipped, pendingResolve, result,
                 resolveCalls, runLog, resumed,
                 outputAtTimeout>>
  /\ UNCHANGED <<stderrVars, channelVars, extVars>>

-----------------------------------------------------------------------------
(* The worker process (the environment).                                   *)

\* The worker exits by itself with code "0" or "1", or, once a signal has been
\* delivered, dies from it (the close event then carries code null).  Text
\* it has not written is lost.  The close event comes after the stdio streams
\* have ended, so every data event precedes it: the model has them all
\* happen before the exit.
WorkerExit(code) ==
  /\ agent = "running"
  /\ code = "null" => signals # <<>>
  /\ signals # <<>> /\ signals[Len(signals)] = "SIGKILL" => code = "null"
  /\ agent' = "exited"
  /\ exitCode' = code
  /\ wout' = <<>>
  /\ werr' = <<>>
  /\ UNCHANGED <<onOutput, fed, stdout, stdoutTruncated, parseBuffer, framed,
                 newSessionId, hadStreamingOutput, timedOut, timeout, forceKill,
                 killed, signals, graceExpiredAlive, chainQ, inflight,
                 chainState, called, delivered, skipped, pendingResolve, result,
                 resolveCalls, runLog, sinceSpawn, sinceEvent, resumed,
                 outputAtTimeout>>
  /\ UNCHANGED <<stderr, stderrTruncated, fedErr, channelVars, extVars>>

-----------------------------------------------------------------------------
(* agent.on('error') (lines 953-961): the process could not be spawned.    *)
(* The runtime emits 'error' and then 'close' with a negative code.        *)

ErrorEvent ==
  /\ agent = "spawnfail"
  /\ agent' = "exited"
  /\ exitCode' = "errno"
  /\ timeout' = -1
  /\ Resolve(SpawnError)
  /\ UNCHANGED <<onOutput, wout, fed, stdout, stdoutTruncated, parseBuffer,
                 framed, newSessionId, hadStreamingOutput, timedOut, forceKill,
                 killed, signals, graceExpiredAlive, chainQ, inflight,
                 chainState, called, delivered, skipped, pendingResolve, runLog,
                 sinceSpawn, sinceEvent, resumed,
                 outputAtTimeout>>
  /\ UNCHANGED <<stderrVars, channelVars, extVars>>

-----------------------------------------------------------------------------
(* agent.on('close') (lines 779-951).                                      *)

\* Variants of the close handler's decision with a plausible defect each.
\* resolve is always called at once, never queued behind outputChain.
CloseOutcome_ResolvesAtOnce ==
  IF timedOut
    THEN IF hadStreamingOutput
           THEN [log |-> "timeout", viaChain |-> FALSE,
                 value |-> StreamSuccess(newSessionId)]
           ELSE [log |-> "timeout", viaChain |-> FALSE, value |-> TimeoutError]
    ELSE IF exitCode # "0"
           THEN [log |-> "run", viaChain |-> FALSE, value |-> ExitError]
           ELSE IF onOutput
                  THEN [log |-> "run", viaChain |-> FALSE,
                        value |-> StreamSuccess(newSessionId)]
                  ELSE [log |-> "run", viaChain |-> FALSE,
                        value |-> LegacyParse(stdout)]

\* A timeout is always reported as an error, streamed output or not.
CloseOutcome_TimeoutAlwaysError ==
  IF timedOut
    THEN [log |-> "timeout", viaChain |-> FALSE, value |-> TimeoutError]
    ELSE IF exitCode # "0"
           THEN [log |-> "run", viaChain |-> FALSE, value |-> ExitError]
           ELSE IF onOutput
                  THEN [log |-> "run", viaChain |-> TRUE,
                        value |-> StreamSuccess(newSessionId)]
                  ELSE [log |-> "run", viaChain |-> FALSE,
                        value |-> LegacyParse(stdout)]

\* In streaming mode with no event parsed, the captured stdout is parsed as
\* in legacy mode.
CloseOutcome_StreamingFallsBack ==
  IF timedOut
    THEN IF hadStreamingOutput
           THEN [log |-> "timeout", viaChain |-> TRUE,
                 value |-> StreamSuccess(newSessionId)]
           ELSE [log |-> "timeout", viaChain |-> FALSE, value |-> TimeoutError]
    ELSE IF exitCode # "0"
           THEN [log |-> "run", viaChain |-> FALSE, value |-> ExitError]
           ELSE IF onOutput /\ hadStreamingOutput
                  THEN [log |-> "run", viaChain |-> TRUE,
                        value |-> StreamSuccess(newSessionId)]
                  ELSE [log |-> "run", viaChain |-> FALSE,
                        value |-> LegacyParse(stdout)]

\* What the close handler does with the promise: the record written to the
\* logs directory, the terminal result, and whether resolve is called at
\* once or from a then-handler queued behind outputChain.
CloseOutcome ==
  IF timedOut
    THEN IF hadStreamingOutput
           THEN [log |-> "timeout", viaChain |-> TRUE,
                 value |-> StreamSuccess(newSessionId)]
           ELSE [log |-> "timeout", viaChain |-> FALSE, value |-> TimeoutError]
    ELSE IF exitCode # "0"
           THEN [log |-> "run", viaChain |-> FALSE, value |-> ExitError]
           ELSE IF onOutput
                  THEN [log |-> "run", viaChain |-> TRUE,
                        value |-> StreamSuccess(newSessionId)]
                  ELSE [log |-> "run", viaChain |-> FALSE,
                        value |-> LegacyParse(stdout)]

\* The record the close handler writes (lines 784-794, 824-867): the timeout
\* record carries no truncation flags and no input; the run record carries
\* both flags, and JSON.stringify(input) when verbose or on a non-zero code.
RunRecord(verbose) ==
  IF CloseOutcome.log = "timeout"
    THEN [kind |-> "timeout", flags |-> <<>>, input |-> <<>>]
    ELSE [kind |-> "run",
          flags |-> <<stdoutTruncated, stderrTruncated>>,
          input |-> IF verbose \/ exitCode # "0" THEN <<input>> ELSE <<>>]

\* Variant with a defect: no record is written after a timeout.
WriteRunLog_NotOnTimeout(verbose) ==
  IF timedOut THEN runLog ELSE Append(runLog, RunRecord(verbose))

\* fs.writeFileSync(timeoutLog, ...) / fs.writeFileSync(logFile, ...)
WriteRunLog(verbose) == Append(runLog, RunRecord(verbose))

\* verbose: LOG_LEVEL is debug or trace when the handler runs
Close(verbose) ==
  /\ agent = "exited"
  /\ agent' = "closed"
  /\ timeout' = -1
  /\ runLog' = WriteRunLog(verbose)
  /\ IF CloseOutcome.viaChain
       THEN /\ pendingResolve' = CloseOutcome.value
            /\ UNCHANGED <<result, resolveCalls>>
       ELSE /\ Resolve(CloseOutcome.value)
            /\ UNCHANGED pendingResolve
  /\ UNCHANGED <<onOutput, exitCode, wout, fed, stdout, stdoutTruncated,
                 parseBuffer, framed, newSessionId, hadStreamingOutput, timedOut,
                 forceKill, killed, signals, graceExpiredAlive, chainQ, inflight,
                 chainState, called, delivered, skipped, sinceSpawn, sinceEvent, resumed,
                 outputAtTimeout>>
  /\ UNCHANGED <<stderrVars, channelVars, extVars>>

-----------------------------------------------------------------------------
(* The promise chain outputChain (lines 686, 724, 801, 892).               *)

\* Variant with a defect: unordered dispatch, the next onOutput call starts
\* although the promise of the previous one is still pending.
ChainStart_NoWait ==
  /\ chainState = "ok"
  /\ chainQ # <<>>
  /\ inflight' = Head(chainQ)
  /\ chainQ' = Tail(chainQ)
  /\ called' = Append(called, Head(chainQ))
  /\ UNCHANGED <<onOutput, agent, exitCode, wout, fed, stdout, stdoutTruncated,
                 parseBuffer, framed, newSessionId, hadStreamingOutput, timedOut,
                 timeout, forceKill, killed, signals, graceExpiredAlive,
                 chainState, delivered, skipped, pendingResolve, result,
                 resolveCalls, runLog, sinceSpawn, sinceEvent, resumed,
                 outputAtTimeout>>
  /\ UNCHANGED <<stderrVars, channelVars, extVars>>

\* the next then-handler runs: onOutput(parsed) is called
ChainStart ==
  /\ chainState = "ok"
  /\ inflight = NoOutput
  /\ chainQ # <<>>
  /\ inflight' = Head(chainQ)
  /\ chainQ' = Tail(chainQ)
  /\ called' = Append(called, Head(chainQ))
  /\ UNCHANGED <<onOutput, agent, exitCode, wout, fed, stdout, stdoutTruncated,
                 parseBuffer, framed, newSessionId, hadStreamingOutput, timedOut,
                 timeout, forceKill, killed, signals, graceExpiredAlive,
                 chainState, delivered, skipped, pendingResolve, result,
                 resolveCalls, runLog, sinceSpawn, sinceEvent, resumed,
                 outputAtTimeout>>
  /\ UNCHANGED <<stderrVars, channelVars, extVars>>

\* the promise onOutput returned fulfils
CallbackFulfil ==
  /\ inflight # NoOutput
  /\ delivered' = Append(delivered, inflight)
  /\ inflight' = NoOutput
  /\ UNCHANGED <<onOutput, agent, exitCode, wout, fed, stdout, stdoutTruncated,
                 parseBuffer, framed, newSessionId, hadStreamingOutput, timedOut,
                 timeout, forceKill, killed, signals, graceExpiredAlive, chainQ,
                 chainState, called, skipped, pendingResolve, result,
                 resolveCalls, runLog, sinceSpawn, sinceEvent, resumed,
                 outputAtTimeout>>
  /\ UNCHANGED <<stderrVars, channelVars, extVars>>

\* onOutput throws or its promise rejects: outputChain is rejected, and every
\* then-handler queued behind it (they have no rejection handler) is passed over
CallbackReject ==
  /\ inflight # NoOutput
  /\ inflight' = NoOutput
  /\ chainState' = "rejected"
  /\ skipped' = skipped \o chainQ
  /\ chainQ' = <<>>
  /\ UNCHANGED <<onOutput, agent, exitCode, wout, fed, stdout, stdoutTruncated,
                 parseBuffer, framed, newSessionId, hadStreamingOutput, timedOut,
                 timeout, forceKill, killed, signals, graceExpiredAlive, called,
                 delivered, pendingResolve, result, resolveCalls, runLog,
                 sinceSpawn, sinceEvent, resumed,
                 outputAtTimeout>>
  /\ UNCHANGED <<stderrVars, channelVars, extVars>>

\* the then-handler of lines 801 / 892 runs once outputChain has fulfilled
ChainResolve ==
  /\ pendingResolve # NoResult
  /\ chainState = "ok"
  /\ inflight = NoOutput
  /\ chainQ = <<>>
  /\ Resolve(pendingResolve)
  /\ pendingResolve' = NoResult
  /\ UNCHANGED <<onOutput, agent, exitCode, wout, fed, stdout, stdoutTruncated,
                 parseBuffer, framed, newSessionId, hadStreamingOutput, timedOut,
                 timeout, forceKill, killed, signals, graceExpiredAlive, chainQ,
                 inflight, chainState, called, delivered, skipped, runLog,
                 sinceSpawn, sinceEvent, resumed,
                 outputAtTimeout>>
  /\ UNCHANGED <<stderrVars, channelVars, extVars>>

-----------------------------------------------------------------------------
(* Specifications.                                                         *)

START == OUTPUT_START_MARKER
END == OUTPUT_END_MARKER
Event(d) == START \o <<d>> \o END

\* What a worker may write in the lifecycle specification.
WorkerOutputs ==
  { <<>>,
    Event("a") \o Event("b"),
    START \o <<"x">> \o END \o <<"\n">> \o Event("c"),
    <<"x", "\n", " ", "a", "\n">>,
    <<"a", "\n", "x">>,
    END \o START \o <<"\n", "b">> }

\* The input object as the caller passes it; secrets is "absent" when the
\* object has no such property.
CallerInput == [isMain |-> TRUE, secrets |-> "absent"]

\* input.secrets = readSecrets() (line 678)
AttachSecrets(inp) == [inp EXCEPT !.secrets = "env"]

\* Variant with a defect: the property stays on the object.
DeleteSecrets_Keeps(inp) == inp

\* delete input.secrets (line 681)
DeleteSecrets(inp) == [inp EXCEPT !.secrets = "absent"]

\* 30_000 ms, in ticks
IdleMargin == 2

\* Variant with a defect: the configured timeout is used as it is.
TimeoutMsOf_NoFloor(cfg) ==
  IF cfg.group # <<>> /\ cfg.group[1] # 0 THEN cfg.group[1] ELSE cfg.global

\* lines 757-758; cfg.group is empty when the group has no timeout of its own
TimeoutMsOf(cfg) ==
  LET configTimeout == IF cfg.group # <<>> /\ cfg.group[1] # 0
                         THEN cfg.group[1] ELSE cfg.global
  IN IF configTimeout >= cfg.idle + IdleMargin
       THEN configTimeout ELSE cfg.idle + IdleMargin

\* The configuration of the runs of Spec: timeoutMs is its TimeoutMsOf.
DefaultConfig == [group |-> <<>>, global |-> 2, idle |-> 1]

\* Two invocations of runContainerAgent that are in progress together.
Invocations == {1, 2}

\* What a worker may write to stderr.
WorkerErrs == { <<>>, <<"e1">>, <<"e1", "e2", "e3">> }

\* No group registered yet, no inbound message handled yet.
InboundNew ==
  /\ registeredGroups = {}
  /\ voicePending = {}
  /\ lastOnMessage = <<>>
  /\ lastDropped = <<>>

\* connect() (lines 51-72) has made the first socket and registered its
\* handlers, the connection.update handler holding resolve as onFirstOpen.
ConnectCalled ==
  /\ onFirstOpen = TRUE
  /\ sockIsFirst = TRUE
  /\ connectResolves = 0
  /\ everOpened = FALSE

\* The channel object as its constructor leaves it (lines 36-49), connect()
\* called.
ChannelNew ==
  /\ ASSISTANT_HAS_OWN_NUMBER \in BOOLEAN
  /\ processUp = TRUE
  /\ connected = FALSE
  /\ outgoingQueue = <<>>
  /\ flushing = FALSE
  /\ accepted = <<>>
  /\ returned = {}
  /\ directSends = {}
  /\ drainSends = {}
  /\ handed = <<>>
  /\ sentOk = <<>>
  /\ enqueued = <<>>
  /\ busyOpen = FALSE
  /\ lidToPhoneMap = <<>>
  /\ lookups = <<>>
  /\ resolverCalls = <<>>
  /\ ConnectCalled

\* The Telegram channel object as its constructor leaves it.
TelegramNew ==
  /\ tgBot = 0
  /\ tgStopping = FALSE
  /\ tgOffset = 0
  /\ tgLoops = <<>>
  /\ tgCalls = <<>>
  /\ tgDelivered = <<>>

\* The state right after the promise executor has run (lines 663-777).
InitWith(outputs, errs) ==
  /\ onOutput \in BOOLEAN
  /\ agent \in {"running", "spawnfail"}
  /\ exitCode = None
  /\ wout \in outputs
  /\ agent = "spawnfail" => wout = <<>>
  /\ fed = <<>>
  /\ stdout = <<>>
  /\ stdoutTruncated = FALSE
  /\ parseBuffer = <<>>
  /\ framed = <<>>
  /\ newSessionId = None
  /\ hadStreamingOutput = FALSE
  /\ timedOut = FALSE
  /\ timeout = timeoutMs
  /\ forceKill = {}
  /\ killed = FALSE
  /\ signals = <<>>
  /\ graceExpiredAlive = FALSE
  /\ chainQ = <<>>
  /\ inflight = NoOutput
  /\ chainState = "ok"
  /\ called = <<>>
  /\ delivered = <<>>
  /\ skipped = <<>>
  /\ pendingResolve = NoResult
  /\ result = NoResult
  /\ resolveCalls = <<>>
  /\ runLog = <<>>
  /\ sinceSpawn = 0
  /\ sinceEvent = 0
  /\ resumed = FALSE
  /\ outputAtTimeout = "unset"
  /\ werr \in errs
  /\ agent = "spawnfail" => werr = <<>>
  /\ stderr = <<>>
  /\ stderrTruncated = FALSE
  /\ fedErr = <<>>
  /\ stdinWritten = <<AttachSecrets(CallerInput)>>
  /\ armedTimeout = <<TimeoutMsOf(DefaultConfig)>>
  /\ ipcDirs = [slot \in Invocations |-> <<>>]
  /\ input = DeleteSecrets(AttachSecrets(CallerInput))

\* One agent run; the channel is idle and sends nothing.
Init ==
  /\ InitWith(WorkerOutputs, WorkerErrs)
  /\ ChannelNew
  /\ TelegramNew
  /\ InboundNew
  /\ timeoutConfig = DefaultConfig
  /\ ASSISTANT_HAS_OWN_NUMBER = FALSE
  /\ failuresLeft = 0

Next ==
  \/ \E n \in 1..Len(wout) : StdoutData(n)
  \/ \E n \in 1..Len(werr) : StderrData(n)
  \/ KillOnTimeout
  \/ ForceKillFires
  \/ Tick
  \/ \E code \in {"0", "1", "null"} : WorkerExit(code)
  \/ ErrorEvent
  \/ \E verbose \in BOOLEAN : Close(verbose)
  \/ ChainStart
  \/ CallbackFulfil
  \/ CallbackReject
  \/ ChainResolve

Spec == Init /\ [][Next]_vars


\* Scheduling the runtime guarantees: time passes and due timers fire, queued
\* events and promise reactions run, a pending onOutput promise settles,
\* SIGKILL ends the process.  The worker itself owes nothing: it may hang
\* for ever.
SigkillDeath ==
  /\ signals # <<>>
  /\ signals[Len(signals)] = "SIGKILL"
  /\ WorkerExit("null")

\* Every run of the model is finite (timers count down, the worker's text
\* and the chain are consumed), so weak fairness of the disjunction says the
\* same as weak fairness of each step: a run stops only where none of them
\* is enabled.
SystemStep ==
  \/ Tick
  \/ KillOnTimeout
  \/ ForceKillFires
  \/ ErrorEvent
  \/ SigkillDeath
  \/ \E verbose \in BOOLEAN : Close(verbose)
  \/ ChainStart
  \/ CallbackFulfil
  \/ CallbackReject
  \/ ChainResolve

FairSpec == Spec /\ WF_vars(SystemStep)

-----------------------------------------------------------------------------
(* The streaming parser alone: a running worker in streaming mode writes   *)
(* any text made of at most MaxPieces pieces, cut into chunks anywhere.    *)

Pieces ==
  { START, END, Event("b"), <<"a">>, <<" ">>, <<"-">>, <<"E">> }

RECURSIVE PieceTexts(_)
PieceTexts(k) ==
  IF k = 0 THEN {<<>>}
  ELSE PieceTexts(k - 1) \cup {t \o p : t \in PieceTexts(k - 1), p \in Pieces}

InitParse ==
  /\ InitWith(PieceTexts(MaxPieces), {<<>>})
  /\ onOutput = TRUE
  /\ agent = "running"
  /\ ChannelNew
  /\ TelegramNew
  /\ InboundNew
  /\ timeoutConfig = DefaultConfig
  /\ ASSISTANT_HAS_OWN_NUMBER = FALSE
  /\ failuresLeft = 0

NextParse == \E n \in 1..Len(wout) : StdoutData(n)

SpecParse == InitParse /\ [][NextParse]_vars

-----------------------------------------------------------------------------
(* The two capture handlers alone: a running worker writes texts that      *)
(* reach or pass the ceiling on stdout, on stderr, or on both, cut into    *)
(* chunks anywhere.                                                        *)

\* a text of n characters no marker occurs in
Filler(n) == [i \in 1..n |-> "e"]

CaptureOutputs ==
  { <<>>,
    Event("a") \o Event("b"),
    Event("a") \o Event("b") \o <<"x", "y">>,
    Event("a") \o <<"x">> \o Event("b"),
    Filler(4) \o Event("c") \o Filler(5) }

CaptureErrs ==
  { <<>>, Filler(CONTAINER_MAX_OUTPUT_SIZE), Filler(CONTAINER_MAX_OUTPUT_SIZE + 2) }

InitCapture ==
  /\ InitWith(CaptureOutputs, CaptureErrs)
  /\ agent = "running"
  /\ ChannelNew
  /\ TelegramNew
  /\ InboundNew
  /\ timeoutConfig = DefaultConfig
  /\ ASSISTANT_HAS_OWN_NUMBER = FALSE
  /\ failuresLeft = 0

NextCapture ==
  \/ \E n \in 1..Len(wout) : StdoutData(n)
  \/ \E n \in 1..Len(werr) : StderrData(n)

SpecCapture == InitCapture /\ [][NextCapture]_vars

-----------------------------------------------------------------------------
(* The WhatsApp channel: sendMessage, the connection.update handler and    *)
(* flushOutgoingQueue.  A JID is a sequence of tokens, the last one its    *)
(* server part; a text is a sequence of tokens.  An await of               *)
(* sock.sendMessage is a pending send that the transport later fulfils or  *)
(* rejects.                                                                *)

ASSISTANT_NAME == "Andy"

GroupJid == <<"120363", "@g.us">>
UserJid == <<"4915", "@s.whatsapp.net">>
Jids == {GroupJid, UserJid}

\* the chat the k-th sendMessage call addresses: groups and direct chats
\* alternate
JidOf(k) == IF k % 2 = 1 THEN GroupJid ELSE UserJid

\* jid.endsWith(suffix), for a suffix that is the server part
EndsWith(jid, suffix) == jid # <<>> /\ jid[Len(jid)] = suffix

\* s.split(sep)[0], for separators that are tokens: the tokens before the
\* first separator
RECURSIVE BeforeFirst(_, _)
BeforeFirst(s, seps) ==
  IF s = <<>> \/ Head(s) \in seps THEN <<>>
  ELSE <<Head(s)>> \o BeforeFirst(Tail(s), seps)

Servers == {"@lid", "@s.whatsapp.net", "@g.us"}

\* jid.split('@')[0].split(':')[0]
UserOf(jid) == BeforeFirst(BeforeFirst(jid, Servers), {":"})

\* Variant with a defect: the resolver's answer is stored as it comes.
PhoneJidOf_KeepsDevice(pn) == pn

\* `${pn.split('@')[0].split(':')[0]}@s.whatsapp.net`
PhoneJidOf(pn) == UserOf(pn) \o <<"@s.whatsapp.net">>

\* this.lidToPhoneMap[key] = value
MapSet(map, key, value) ==
  [k \in DOMAIN map \cup {key} |-> IF k = key THEN value ELSE map[k]]

\* this.lidToPhoneMap[lidUser], as a sequence of at most one value
CachedFor(lidUser) ==
  IF lidUser \in DOMAIN lidToPhoneMap THEN <<lidToPhoneMap[lidUser]>> ELSE <<>>

\* sock.user of the linked device the auth state belongs to
SockUser ==
  [id |-> <<"4915", ":", "3", "@s.whatsapp.net">>,
   lid |-> <<"777", ":", "3", "@lid">>]

\* lines 118-126: the account's own mapping
OwnMapping(map) ==
  LET phoneUser == BeforeFirst(SockUser.id, {":"})
      lidUser == BeforeFirst(SockUser.lid, {":"})
  IN IF lidUser # <<>> /\ phoneUser # <<>>
       THEN MapSet(map, lidUser, phoneUser \o <<"@s.whatsapp.net">>)
       ELSE map

\* The ids messages.upsert carries as remoteJid.
OwnLid == <<"777", "@lid">>
OwnLidDevice == <<"777", ":", "5", "@lid">>
OtherLid == <<"888", "@lid">>
RemoteJids == {GroupJid, OwnLid, OwnLidDevice, OtherLid}

\* The phone number WhatsApp has for a LID user.
PhoneUserOfLid(lidUser) == IF lidUser = <<"777">> THEN "4915" ELSE "4916"

\* What getPNForLID may answer for a LID it knows: the phone JID, with or
\* without a device part.
ResolverAnswers(jid) ==
  LET phone == PhoneUserOfLid(UserOf(jid))
  IN { <<phone, "@s.whatsapp.net">>, <<phone, ":", "0", "@s.whatsapp.net">>,
       <<phone, ":", "5", "@s.whatsapp.net">> }

-----------------------------------------------------------------------------
(* translateJid (lines 411-436).  A call runs to its return, or to the     *)
(* await of getPNForLID; the resolver then answers with a phone JID, with  *)
(* nothing, or by throwing.                                                *)

TranslateJid(jid) ==
  /\ processUp
  /\ Len(lookups) < MaxLookups
  /\ LET cached == CachedFor(UserOf(jid))
         call == [jid |-> jid, mapAtCall |-> lidToPhoneMap, asked |-> FALSE,
                  answer |-> "none", state |-> "returned", value |-> jid]
     IN IF ~EndsWith(jid, "@lid")
          THEN /\ lookups' = Append(lookups, call)
               /\ UNCHANGED resolverCalls
          ELSE IF cached # <<>>
                 THEN /\ lookups' = Append(lookups, [call EXCEPT !.value = cached[1]])
                      /\ UNCHANGED resolverCalls
                 ELSE /\ lookups' = Append(lookups,
                                       [call EXCEPT !.asked = TRUE, !.state = "awaiting"])
                      /\ resolverCalls' = Append(resolverCalls, jid)
  /\ UNCHANGED <<lidToPhoneMap, inputVars, ipcDirs, telegramVars, configVars, connectVars, inboundVars, channelVars, runVars,
                 stderrVars>>

\* getPNForLID resolves with pn: the mapping is stored and returned
GetPNResolves(i, pn) ==
  /\ processUp
  /\ i \in 1..Len(lookups)
  /\ lookups[i].state = "awaiting"
  /\ pn \in ResolverAnswers(lookups[i].jid)
  /\ LET phoneJid == PhoneJidOf(pn) IN
       /\ lidToPhoneMap' = MapSet(lidToPhoneMap, UserOf(lookups[i].jid), phoneJid)
       /\ lookups' = [lookups EXCEPT ![i] = [@ EXCEPT !.answer = "pn",
                                                     !.state = "returned",
                                                     !.value = phoneJid]]
  /\ UNCHANGED <<resolverCalls, inputVars, ipcDirs, telegramVars, configVars, connectVars, inboundVars, channelVars, runVars,
                 stderrVars>>

\* getPNForLID resolves with nothing: return jid
GetPNNothing(i) ==
  /\ processUp
  /\ i \in 1..Len(lookups)
  /\ lookups[i].state = "awaiting"
  /\ lookups' = [lookups EXCEPT ![i] = [@ EXCEPT !.answer = "nothing",
                                                !.state = "returned",
                                                !.value = lookups[i].jid]]
  /\ UNCHANGED <<lidToPhoneMap, resolverCalls, inputVars, ipcDirs, telegramVars, configVars, connectVars, inboundVars,
                 channelVars, runVars, stderrVars>>

\* Variant with a defect: the exception leaves translateJid.
TranslateCatch_Rethrows(call) ==
  [call EXCEPT !.answer = "throws", !.state = "threw"]

\* catch (err) { logger.debug(...) } ... return jid
TranslateCatch(call) ==
  [call EXCEPT !.answer = "throws", !.state = "returned", !.value = call.jid]

\* getPNForLID rejects
GetPNRejects(i) ==
  /\ processUp
  /\ i \in 1..Len(lookups)
  /\ lookups[i].state = "awaiting"
  /\ lookups' = [lookups EXCEPT ![i] = TranslateCatch(@)]
  /\ UNCHANGED <<lidToPhoneMap, resolverCalls, inputVars, ipcDirs, telegramVars, configVars, connectVars, inboundVars,
                 channelVars, runVars, stderrVars>>

\* the text of the k-th sendMessage call
TextOf(k) == <<ToString(k)>>

\* lines 281-284
Prefixed(jid, text) ==
  IF ~ASSISTANT_HAS_OWN_NUMBER /\ EndsWith(jid, "@g.us")
    THEN <<ASSISTANT_NAME, ": ">> \o text
    ELSE text

\* this.outgoingQueue.push(item)
Enqueue(item) ==
  /\ outgoingQueue' = Append(outgoingQueue, item)
  /\ enqueued' = Append(enqueued, item)

\* Variant with a defect: the transport send is tried whatever connected says.
SendMessage_AlwaysSends(jid) ==
  /\ processUp
  /\ Len(accepted) < MaxMsgs
  /\ jid = JidOf(Len(accepted) + 1)
  /\ LET item == [jid |-> jid, text |-> Prefixed(jid, TextOf(Len(accepted) + 1))]
     IN /\ accepted' = Append(accepted, item)
        /\ handed' = Append(handed, [item |-> item, by |-> "sendMessage"])
        /\ directSends' = directSends \cup {item}
        /\ UNCHANGED <<outgoingQueue, enqueued, returned>>
  /\ busyOpen' = FALSE
  /\ UNCHANGED <<ASSISTANT_HAS_OWN_NUMBER, processUp, connected, flushing,
                 drainSends, sentOk, failuresLeft, runVars, stderrVars, extVars>>

\* sendMessage(jid, text) up to its return or its await (lines 278-292)
SendMessage(jid) ==
  /\ processUp
  /\ Len(accepted) < MaxMsgs
  /\ jid = JidOf(Len(accepted) + 1)
  /\ LET item == [jid |-> jid, text |-> Prefixed(jid, TextOf(Len(accepted) + 1))]
     IN /\ accepted' = Append(accepted, item)
        /\ IF ~connected
             THEN /\ Enqueue(item)
                  /\ returned' = returned \cup {item}
                  /\ UNCHANGED <<directSends, handed>>
             ELSE /\ handed' = Append(handed, [item |-> item, by |-> "sendMessage"])
                  /\ directSends' = directSends \cup {item}
                  /\ UNCHANGED <<outgoingQueue, enqueued, returned>>
  /\ busyOpen' = FALSE
  /\ UNCHANGED <<ASSISTANT_HAS_OWN_NUMBER, processUp, connected, flushing,
                 drainSends, sentOk, failuresLeft, runVars, stderrVars, extVars>>

\* the awaited send of sendMessage fulfils (line 293)
DirectSendOk(item) ==
  /\ processUp
  /\ item \in directSends
  /\ directSends' = directSends \ {item}
  /\ sentOk' = Append(sentOk, item)
  /\ returned' = returned \cup {item}
  /\ busyOpen' = FALSE
  /\ UNCHANGED <<ASSISTANT_HAS_OWN_NUMBER, processUp, connected, outgoingQueue,
                 flushing, accepted, drainSends, handed, enqueued, failuresLeft, runVars, stderrVars, extVars>>

\* Variant with a defect: the item of a failed send is not queued.
DirectSendFail_Drops(item) ==
  /\ processUp
  /\ failuresLeft > 0
  /\ item \in directSends
  /\ directSends' = directSends \ {item}
  /\ failuresLeft' = failuresLeft - 1
  /\ returned' = returned \cup {item}
  /\ busyOpen' = FALSE
  /\ UNCHANGED <<ASSISTANT_HAS_OWN_NUMBER, processUp, connected, flushing,
                 accepted, drainSends, handed, sentOk, outgoingQueue,
                 enqueued, runVars, stderrVars, extVars>>

\* the awaited send of sendMessage rejects: the catch block (lines 294-298)
DirectSendFail(item) ==
  /\ processUp
  /\ failuresLeft > 0
  /\ item \in directSends
  /\ directSends' = directSends \ {item}
  /\ failuresLeft' = failuresLeft - 1
  /\ Enqueue(item)
  /\ returned' = returned \cup {item}
  /\ busyOpen' = FALSE
  /\ UNCHANGED <<ASSISTANT_HAS_OWN_NUMBER, processUp, connected, flushing,
                 accepted, drainSends, handed, sentOk, runVars,
                 stderrVars, extVars>>

\* Variant with a defect: the drain prefixes the queued text again.
DrainNext_PrefixesAgain(others) ==
  LET item == [Head(outgoingQueue) EXCEPT
                 !.text = Prefixed(Head(outgoingQueue).jid, Head(outgoingQueue).text)]
  IN /\ outgoingQueue' = Tail(outgoingQueue)
     /\ handed' = Append(handed, [item |-> item, by |-> "drain"])
     /\ drainSends' = others \cup {item}

\* Variant with a defect: the drain takes the newest item.
DrainNext_TakesLast(others) ==
  /\ outgoingQueue' = SubSeq(outgoingQueue, 1, Len(outgoingQueue) - 1)
  /\ handed' = Append(handed, [item |-> outgoingQueue[Len(outgoingQueue)],
                               by |-> "drain"])
  /\ drainSends' = others \cup {outgoingQueue[Len(outgoingQueue)]}

\* one turn of the while loop up to its await (lines 443-446); others are
\* the drain sends that stay pending
DrainNext(others) ==
  /\ outgoingQueue' = Tail(outgoingQueue)
  /\ handed' = Append(handed, [item |-> Head(outgoingQueue), by |-> "drain"])
  /\ drainSends' = others \cup {Head(outgoingQueue)}

\* Variant with a defect: the flushing flag is not consulted.
FlushMayStart_IgnoresFlushing == outgoingQueue # <<>>

\* line 439, negated
FlushMayStart == ~flushing /\ outgoingQueue # <<>>

\* flushOutgoingQueue() up to its return or its first await (lines 438-446)
FlushOutgoingQueue ==
  IF FlushMayStart
    THEN /\ flushing' = TRUE
         /\ DrainNext(drainSends)
    ELSE UNCHANGED <<flushing, outgoingQueue, handed, drainSends>>

\* the awaited send of the drain fulfils: the loop goes on, or ends and the
\* finally block clears the flag (lines 447-451)
DrainSendOk(item) ==
  /\ processUp
  /\ item \in drainSends
  /\ sentOk' = Append(sentOk, item)
  /\ IF outgoingQueue # <<>>
       THEN /\ DrainNext(drainSends \ {item})
            /\ UNCHANGED flushing
       ELSE /\ flushing' = FALSE
            /\ drainSends' = drainSends \ {item}
            /\ UNCHANGED <<outgoingQueue, handed>>
  /\ busyOpen' = FALSE
  /\ UNCHANGED <<ASSISTANT_HAS_OWN_NUMBER, processUp, connected, accepted,
                 returned, directSends, enqueued, failuresLeft,
                 runVars, stderrVars, extVars>>

\* Variant with a defect: the exception leaves the loop with the flag set.
DrainSendFail_KeepsFlag(item) ==
  /\ processUp
  /\ failuresLeft > 0
  /\ item \in drainSends
  /\ failuresLeft' = failuresLeft - 1
  /\ drainSends' = drainSends \ {item}
  /\ busyOpen' = FALSE
  /\ UNCHANGED <<ASSISTANT_HAS_OWN_NUMBER, processUp, connected, outgoingQueue,
                 flushing, accepted, returned, directSends, handed, sentOk,
                 enqueued, runVars, stderrVars, extVars>>

\* the awaited send of the drain rejects: the exception leaves the loop
\* through the finally block (lines 449-451) and is logged by the caller
\* (lines 129-131); the item it had shifted is in no queue any more
DrainSendFail(item) ==
  /\ processUp
  /\ failuresLeft > 0
  /\ item \in drainSends
  /\ failuresLeft' = failuresLeft - 1
  /\ drainSends' = drainSends \ {item}
  /\ flushing' = FALSE
  /\ busyOpen' = FALSE
  /\ UNCHANGED <<ASSISTANT_HAS_OWN_NUMBER, processUp, connected, outgoingQueue,
                 accepted, returned, directSends, handed, sentOk, enqueued, runVars, stderrVars, extVars>>

\* if (onFirstOpen), in the handler of the socket in use (lines 147-151):
\* only the handler of the first socket was given the callback
FirstOpenPending == sockIsFirst /\ onFirstOpen

\* connection.update with connection === 'open' (lines 106-152)
ConnectionOpen ==
  /\ processUp
  /\ connected' = TRUE
  /\ FlushOutgoingQueue
  /\ lidToPhoneMap' = OwnMapping(lidToPhoneMap)
  /\ busyOpen' = (drainSends # {} /\ outgoingQueue # <<>>)
  /\ everOpened' = TRUE
  /\ IF FirstOpenPending
       THEN /\ connectResolves' = connectResolves + 1
            /\ onFirstOpen' = FALSE
       ELSE UNCHANGED <<connectResolves, onFirstOpen>>
  /\ UNCHANGED <<ASSISTANT_HAS_OWN_NUMBER, processUp, accepted, returned,
                 directSends, sentOk, enqueued, failuresLeft,
                 runVars, stderrVars, inputVars, lookupVars, ipcDirs,
                 telegramVars, configVars, sockIsFirst, inboundVars>>

\* connection.update with connection === 'close' (lines 86-105): a
\* reconnect is started, or, when logged out, the process exits
ConnectionClose(loggedOut) ==
  /\ processUp
  /\ connected' = FALSE
  /\ processUp' = ~loggedOut
  /\ sockIsFirst' = (sockIsFirst /\ loggedOut)
  /\ busyOpen' = FALSE
  /\ UNCHANGED <<ASSISTANT_HAS_OWN_NUMBER, outgoingQueue, flushing, accepted,
                 returned, directSends, drainSends, handed, sentOk, enqueued,
                 failuresLeft, runVars, stderrVars, inputVars, lidToPhoneMap,
                 lookupVars, ipcDirs, telegramVars, configVars, onFirstOpen,
                 connectResolves, everOpened, inboundVars>>

\* disconnect() (lines 360-363)
Disconnect ==
  /\ processUp
  /\ connected
  /\ connected' = FALSE
  /\ busyOpen' = FALSE
  /\ UNCHANGED <<ASSISTANT_HAS_OWN_NUMBER, processUp, outgoingQueue, flushing,
                 accepted, returned, directSends, drainSends, handed, sentOk,
                 enqueued, failuresLeft, runVars, stderrVars, extVars>>

\* No agent run is in progress.
NoRun ==
  /\ onOutput = FALSE
  /\ agent = "closed"
  /\ exitCode = None
  /\ wout = <<>>
  /\ fed = <<>>
  /\ stdout = <<>>
  /\ stdoutTruncated = FALSE
  /\ parseBuffer = <<>>
  /\ framed = <<>>
  /\ newSessionId = None
  /\ hadStreamingOutput = FALSE
  /\ timedOut = FALSE
  /\ timeout = -1
  /\ forceKill = {}
  /\ killed = FALSE
  /\ signals = <<>>
  /\ graceExpiredAlive = FALSE
  /\ chainQ = <<>>
  /\ inflight = NoOutput
  /\ chainState = "ok"
  /\ called = <<>>
  /\ delivered = <<>>
  /\ skipped = <<>>
  /\ pendingResolve = NoResult
  /\ result = NoResult
  /\ resolveCalls = <<>>
  /\ runLog = <<>>
  /\ sinceSpawn = 0
  /\ sinceEvent = 0
  /\ resumed = FALSE
  /\ outputAtTimeout = "unset"
  /\ werr = <<>>
  /\ stderr = <<>>
  /\ stderrTruncated = FALSE
  /\ fedErr = <<>>
  /\ stdinWritten = <<>>
  /\ input = CallerInput
  /\ armedTimeout = <<>>
  /\ ipcDirs = [slot \in Invocations |-> <<>>]

InitQueue ==
  /\ NoRun
  /\ ChannelNew
  /\ TelegramNew
  /\ InboundNew
  /\ timeoutConfig = DefaultConfig
  /\ failuresLeft = MaxFailures

NextQueue ==
  \/ \E jid \in Jids : SendMessage(jid)
  \/ \E item \in directSends : DirectSendOk(item)
  \/ \E item \in directSends : DirectSendFail(item)
  \/ \E item \in drainSends : DrainSendOk(item)
  \/ \E item \in drainSends : DrainSendFail(item)
  \/ ConnectionOpen
  \/ \E loggedOut \in BOOLEAN : ConnectionClose(loggedOut)
  \/ Disconnect

SpecQueue == InitQueue /\ [][NextQueue]_vars

\* The channel under the provisos of eventual delivery: the session is never
\* logged out, 'open' events keep coming, every pending send settles, and
\* only MaxFailures sends fail.
NextQueueUp ==
  \/ \E jid \in Jids : SendMessage(jid)
  \/ \E item \in directSends : DirectSendOk(item)
  \/ \E item \in directSends : DirectSendFail(item)
  \/ \E item \in drainSends : DrainSendOk(item)
  \/ \E item \in drainSends : DrainSendFail(item)
  \/ ConnectionOpen
  \/ ConnectionClose(FALSE)
  \/ Disconnect

SendSettles ==
  \/ \E item \in directSends : DirectSendOk(item) \/ DirectSendFail(item)
  \/ \E item \in drainSends : DrainSendOk(item) \/ DrainSendFail(item)

FairQueue ==
  /\ InitQueue
  /\ [][NextQueueUp]_vars
  /\ WF_vars(ConnectionOpen)
  /\ WF_vars(SendSettles)

-----------------------------------------------------------------------------
(* Properties.                                                             *)

IsPrefix(p, q) == Len(p) <= Len(q) /\ SubSeq(q, 1, Len(p)) = p

\* the outputs of the pairs JSON.parse accepted so far, in framing order
Parsed == ParsedOf(framed)

\* C1: for every worker outcome and every behaviour of the streaming callback
\* the promise returned by runContainerAgent eventually settles with a
\* terminal ContainerOutput: it is never left pending.
C1_EventuallySettles == <>(result # NoResult)

\* C2: in streaming mode onOutput is invoked for the parsed events in the
\* order their pairs were framed, and the call for event k+1 does not start
\* before the promise of the call for event k has settled.
C2_OrderedDelivery ==
  /\ IsPrefix(called, Parsed)
  /\ IsPrefix(delivered, called)
  /\ Len(called) = Len(delivered)
                     + (IF inflight # NoOutput THEN 1 ELSE 0)
                     + (IF chainState = "rejected" THEN 1 ELSE 0)
  /\ inflight # NoOutput => inflight = called[Len(called)]

\* two events framed back to back before the first call starts, the second
\* call started after the first one fulfilled
C2_Witness ==
  /\ Len(called) = 2
  /\ called[1] # called[2]
  /\ delivered = <<called[1]>>
  /\ inflight = called[2]

\* C3: when the worker exits with code 0 after n >= 1 events were streamed
\* (callback registered), the terminal result is success / result null, and
\* by the time it resolves each of the n events has been delivered to the
\* callback exactly once, in order, with no delivery still pending.
C3_ExitZeroAfterEvents ==
  (result # NoResult /\ onOutput /\ exitCode = "0" /\ Parsed # <<>>)
    => /\ result = StreamSuccess(newSessionId)
       /\ called = Parsed
       /\ delivered = Parsed
       /\ inflight = NoOutput

C3_Witness ==
  /\ result # NoResult
  /\ exitCode = "0"
  /\ ~timedOut
  /\ Len(Parsed) = 2
  /\ delivered = Parsed


\* C4 as stated: when the timeout has fired, the terminal result is a timeout
\* error if no event had been streamed before the timeout fired, and a soft
\* success carrying the last newSessionId if one had.
C4_AsStated ==
  (result # NoResult /\ timedOut /\ exitCode # "errno")
    => IF outputAtTimeout = "yes"
         THEN result = StreamSuccess(newSessionId)
         ELSE result = TimeoutError

\* C4, amended: when the timeout has fired, the terminal result is a timeout
\* error if no event was parsed before the close event, and a soft success
\* carrying the last newSessionId if at least one was, whether it was parsed
\* before or after the timer fired.
C4_TimeoutResult ==
  (result # NoResult /\ timedOut /\ exitCode # "errno")
    => IF Parsed # <<>>
         THEN result = StreamSuccess(newSessionId)
         ELSE result = TimeoutError

\* a soft success whose only event was parsed after the timer had fired
C4_Witness ==
  /\ timedOut
  /\ outputAtTimeout = "no"
  /\ Len(Parsed) = 1
  /\ result = StreamSuccess("s1")

\* C5 as stated: an absolute timer kills the worker once timeoutMs has
\* elapsed since spawn, however often it streams.
C5_AsStated ==
  (agent = "running" /\ sinceSpawn > timeoutMs) => timedOut

\* C5, amended: there is one timer, restarted by every parsed event: until it
\* fires, a running worker's timer is armed and due timeoutMs after the later
\* of spawn and the most recent parsed event, and time never passes that
\* instant without killOnTimeout having run.
C5_SingleRestartedTimer ==
  (agent = "running" /\ ~timedOut)
    => /\ timeout = timeoutMs - sinceEvent
       /\ sinceEvent <= timeoutMs

\* a worker that has streamed an event is still running, not timed out,
\* later than timeoutMs after spawn
C5_Witness ==
  /\ agent = "running"
  /\ ~timedOut
  /\ hadStreamingOutput
  /\ sinceSpawn > timeoutMs

\* C6: when the grace period after SIGTERM ends with the worker still
\* running, the worker is sent SIGKILL.
C6_ForceKillEscalates ==
  graceExpiredAlive => \E i \in 1..Len(signals) : signals[i] = "SIGKILL"

\* C7: a rejected onOutput call does not unwind the orchestrator: no event
\* framed after the failed one is passed over, and a terminal resolution
\* queued behind the chain is not abandoned.
C7_DeliveryFailureContained ==
  /\ skipped = <<>>
  /\ ~(chainState = "rejected" /\ pendingResolve # NoResult)

\* C8: however the stdout text is cut into chunks, the pairs the data handler
\* has consumed, and the buffer it is left with, are those of one scan of the
\* same text arriving as a single chunk.
C8_ChunkIndependence ==
  /\ framed = ScanLoop(fed).out
  /\ parseBuffer = ScanLoop(fed).rest

\* two events parsed, a pair of them completed across a chunk boundary
C8_Witness ==
  /\ resumed
  /\ Len(Parsed) = 2
  /\ wout = <<>>

\* C9: a data event that leaves no complete pair in the buffer (a start marker
\* without a later end marker, or no start marker at all, whatever end markers
\* precede) produces no event and keeps all the text buffered; a data event
\* that brings the missing end marker produces an event whose payload is the
\* trimmed text between the two markers, and exactly one event when no
\* further start marker follows.
C9_PendingStart ==
  [][fed' # fed =>
       LET joined == parseBuffer \o SliceFrom(fed', Len(fed))
           s == IndexOf(joined, START, 0)
           e == IF s = -1 THEN -1 ELSE IndexOf(joined, END, s)
       IN /\ (s = -1 \/ e = -1) =>
               /\ framed' = framed
               /\ parseBuffer' = joined
          /\ (s # -1 /\ e # -1) =>
               /\ Len(framed') > Len(framed)
               /\ framed'[Len(framed) + 1].str
                    = Trim(Slice(joined, s + Len(START), e))
               /\ IndexOf(joined, START, e + Len(END)) = -1
                    => Len(framed') = Len(framed) + 1
     ]_vars

\* an end marker came first and was ignored, then a start marker stayed
\* pending until a later chunk brought its end marker: one event
C9_Witness ==
  /\ resumed
  /\ fed = END \o Event("b")
  /\ Len(framed) = 1
  /\ framed[1].ok
  /\ framed[1].str = <<"b">>

\* C10: a pair whose text is not valid JSON is consumed and skipped: only the
\* well-formed pairs are handed to the callback chain, all of them and in
\* order, and the scan goes on until the buffer holds no complete pair.
C10_MalformedSkipped ==
  /\ chainQ = Parsed
  /\ Len(Parsed) = Cardinality({i \in 1..Len(framed) : framed[i].ok})
  /\ LET s == IndexOf(parseBuffer, START, 0)
     IN s = -1 \/ IndexOf(parseBuffer, END, s) = -1

\* a malformed pair followed by a well-formed one, which was handed on
C10_Witness ==
  /\ Len(framed) = 2
  /\ ~framed[1].ok
  /\ framed[2].ok
  /\ chainQ = <<JsonParse(framed[2].str)>>

-----------------------------------------------------------------------------
(* Legacy mode and the exit code.                                          *)

\* the worker exited by itself with code 0, no callback, no timeout
LegacyDone == result # NoResult /\ ~onOutput /\ exitCode = "0" /\ ~timedOut

\* what JSON.parse makes of a payload text
PayloadResult(str) ==
  IF JsonValid(str) THEN WithNoError(JsonParse(str)) ELSE ParseError

\* C11: in legacy mode (exit 0, no streaming callback), when the accumulated
\* stdout holds several complete marker pairs, the terminal result is the
\* payload of the last complete pair.
C11_LegacyLastPair ==
  LET pairs == ScanLoop(stdout).out IN
  (LegacyDone /\ Len(pairs) >= 2)
    => result = PayloadResult(pairs[Len(pairs)].str)

\* C12: in legacy mode, when stdout holds no complete marker pair, the last
\* line of the trimmed stdout is parsed as the payload; a payload that is not
\* valid JSON resolves the promise with status error and result null.
C12_LegacyFallback ==
  (LegacyDone /\ ScanLoop(stdout).out = <<>>)
    => /\ result = PayloadResult(LastLine(Trim(stdout)))
       /\ ~JsonValid(LastLine(Trim(stdout)))
            => result.status = "error" /\ result.result = None

\* two lines of output without markers, the last one not valid JSON:
\* resolved with the parse error
C12_Witness ==
  /\ LegacyDone
  /\ stdout = <<"a", "\n", "x">>
  /\ result = ParseError

\* C13: a non-zero exit code with no parsed event and no timeout resolves
\* with status error and result null; when the worker had been spawned the
\* error text ends with the last StderrTailLen characters of the captured
\* stderr, or all of it when it is shorter.
C13_NonZeroExit ==
  (result # NoResult /\ ~timedOut /\ exitCode \notin {None, "0"} /\ Parsed = <<>>)
    => /\ result.status = "error"
       /\ result.result = None
       /\ exitCode # "errno" =>
            /\ result.error = "exit"
            /\ Len(result.detail) = Min(Len(stderr), StderrTailLen)
            /\ result.detail = SliceFrom(stderr, Len(stderr) - Len(result.detail))

\* exit code 1 with three characters of stderr captured: the text carries two
C13_Witness ==
  /\ result # NoResult
  /\ exitCode = "1"
  /\ ~timedOut
  /\ Parsed = <<>>
  /\ Len(stderr) = 3
  /\ result.detail = <<"e2", "e3">>

-----------------------------------------------------------------------------
(* The outgoing queue of the WhatsApp channel.                             *)

Range(seq) == {seq[i] : i \in 1..Len(seq)}

\* the items the drains have handed to the transport, in order
DrainHanded ==
  LET byDrain == SelectSeq(handed, LAMBDA h : h.by = "drain")
  IN [i \in 1..Len(byDrain) |-> byDrain[i].item]

\* the number of the sendMessage call that accepted the item
CallOf(item) == CHOOSE k \in 1..Len(accepted) : accepted[k] = item

\* C14: while connected is false, a sendMessage call appends exactly its one
\* item to the outgoing queue and makes no transport send.
C14_DisconnectedEnqueues ==
  [][(~connected /\ accepted' # accepted) =>
       /\ outgoingQueue' = Append(outgoingQueue, accepted'[Len(accepted')])
       /\ handed' = handed
       /\ directSends' = directSends
       /\ drainSends' = drainSends
    ]_vars

\* two calls made while disconnected: both items queued, nothing handed on
C14_Witness ==
  /\ ~connected
  /\ Len(accepted) = 2
  /\ outgoingQueue = accepted
  /\ handed = <<>>

\* C15: while connected, a sendMessage call makes one transport send at once
\* and queues nothing; when that send fails, the item is appended to the
\* outgoing queue and the call returns normally.
C15_FailedSendQueued ==
  [][/\ (connected /\ accepted' # accepted) =>
          /\ handed' = Append(handed, [item |-> accepted'[Len(accepted')],
                                       by |-> "sendMessage"])
          /\ outgoingQueue' = outgoingQueue
     /\ \A item \in directSends :
          (item \notin directSends' /\ sentOk' = sentOk) =>
             /\ outgoingQueue' = Append(outgoingQueue, item)
             /\ item \in returned'
    ]_vars

\* a send made while connected failed: its item is queued, its call returned
C15_Witness ==
  \E item \in returned :
    /\ [item |-> item, by |-> "sendMessage"] \in Range(handed)
    /\ item \notin Range(sentOk)
    /\ outgoingQueue = <<item>>
    /\ connected

\* C16: the drains hand the queued items to the transport in the order they
\* were enqueued, each dequeued item once: the items ever enqueued are those
\* the drains have handed on, in that order, followed by those still queued.
C16_DrainFifo ==
  /\ enqueued = DrainHanded \o outgoingQueue
  /\ \A i, j \in 1..Len(DrainHanded) : DrainHanded[i] = DrainHanded[j] => i = j

\* an item queued after a failed send while connected and an item queued
\* while disconnected, both drained, in the order they were queued
C16_Witness ==
  /\ Len(accepted) >= 2
  /\ handed = << [item |-> accepted[1], by |-> "sendMessage"],
                 [item |-> accepted[1], by |-> "drain"],
                 [item |-> accepted[2], by |-> "drain"] >>
  /\ sentOk = <<accepted[1], accepted[2]>>

\* C17: at most one drain is sending at any time, and an 'open' event that
\* arrives while a drain is in flight with items still queued performs no
\* send and takes nothing from the queue.
C17_DrainExclusive ==
  /\ [](Cardinality(drainSends) <= 1 /\ (drainSends # {} <=> flushing))
  /\ [][busyOpen' =>
          /\ handed' = handed
          /\ drainSends' = drainSends
          /\ outgoingQueue' = outgoingQueue
       ]_vars

\* an 'open' event has just found a drain in flight and an item queued
C17_Witness ==
  /\ busyOpen
  /\ flushing
  /\ Cardinality(drainSends) = 1
  /\ outgoingQueue # <<>>

\* C18: an item whose transport send fails during a drain stays undelivered
\* in the queue: every item ever enqueued is queued, being sent by a drain,
\* or was accepted by the transport.
C18_FailedDrainItemKept ==
  \A i \in 1..Len(enqueued) :
    enqueued[i] \in Range(outgoingQueue) \cup drainSends \cup Range(sentOk)

\* C19: every message accepted by sendMessage is eventually accepted by the
\* transport, when 'open' events keep coming and sends eventually succeed.
C19_EventualDelivery ==
  []<>(\A k \in 1..Len(accepted) : accepted[k] \in Range(sentOk))

\* C20: the transport accepts the messages in the order of their sendMessage
\* calls, whatever the interleaving of calls, closes, opens and drains.
C20_OrderPreserved ==
  \A i, j \in 1..Len(sentOk) :
    i < j => CallOf(sentOk[i]) < CallOf(sentOk[j])

-----------------------------------------------------------------------------
(* The channel translating the ids of incoming messages while the          *)
(* connection opens, closes and reconnects; nothing is sent.               *)

InitJid ==
  /\ NoRun
  /\ ChannelNew
  /\ TelegramNew
  /\ InboundNew
  /\ timeoutConfig = DefaultConfig
  /\ ASSISTANT_HAS_OWN_NUMBER = FALSE
  /\ failuresLeft = 0

NextJid ==
  \/ \E jid \in RemoteJids : TranslateJid(jid)
  \/ \E i \in 1..Len(lookups) : \E pn \in ResolverAnswers(lookups[i].jid) :
       GetPNResolves(i, pn)
  \/ \E i \in 1..Len(lookups) : GetPNNothing(i)
  \/ \E i \in 1..Len(lookups) : GetPNRejects(i)
  \/ ConnectionOpen
  \/ \E loggedOut \in BOOLEAN : ConnectionClose(loggedOut)
  \/ Disconnect

SpecJid == InitJid /\ [][NextJid]_vars

\* C22: translateJid never throws; an id that does not end in '@lid' is
\* returned as it is without asking the resolver; an id whose mapping is
\* cached returns the cached phone JID without asking the resolver; and
\* when the resolver throws or answers nothing the id is returned as it is.
C22_TranslateTotal ==
  \A i \in 1..Len(lookups) :
    LET l == lookups[i] IN
      /\ l.state # "threw"
      /\ ~EndsWith(l.jid, "@lid") => (~l.asked /\ l.state = "returned" /\ l.value = l.jid)
      /\ UserOf(l.jid) \in DOMAIN l.mapAtCall /\ EndsWith(l.jid, "@lid")
           => (~l.asked /\ l.state = "returned" /\ l.value = l.mapAtCall[UserOf(l.jid)])
      /\ l.answer \in {"nothing", "throws"} => (l.state = "returned" /\ l.value = l.jid)

\* a resolver failure was absorbed, a cached mapping was served, and an id
\* of another kind went through
C22_Witness ==
  /\ \E i \in 1..Len(lookups) : lookups[i].answer = "throws"
  /\ \E i \in 1..Len(lookups) :
       /\ UserOf(lookups[i].jid) \in DOMAIN lookups[i].mapAtCall
       /\ lookups[i].value # lookups[i].jid
  /\ \E i \in 1..Len(lookups) : lookups[i].jid = GroupJid

\* C23: the resolver is called at most once for an opaque id, whether the
\* resolutions of that id follow one another or overlap, and whatever the
\* outcome of the first.
C23_ResolverOncePerId ==
  \A i, j \in 1..Len(resolverCalls) :
    i # j => resolverCalls[i] # resolverCalls[j]

\* C24: a recorded mapping is never removed and never changed, by a later
\* resolution, by an 'open' event, by a close or by a reconnect.
C24_MappingMonotonic ==
  [][ \A k \in DOMAIN lidToPhoneMap :
        /\ k \in DOMAIN lidToPhoneMap'
        /\ lidToPhoneMap'[k] = lidToPhoneMap[k] ]_vars

\* two overlapping resolutions of one LID user have both stored their
\* answer, and the connection has opened on the stored mapping
C24_Witness ==
  /\ connected
  /\ \E i, j \in 1..Len(lookups) :
       /\ i # j
       /\ lookups[i].answer = "pn"
       /\ lookups[j].answer = "pn"
       /\ UserOf(lookups[i].jid) = <<"777">>
       /\ UserOf(lookups[j].jid) = <<"777">>
  /\ <<"777">> \in DOMAIN lidToPhoneMap

-----------------------------------------------------------------------------
(* prepareIpcDirs (lines 566-575).  A chatJid is a sequence of characters; *)
(* a path is a sequence of segments.                                       *)

DATA_DIR == <<"data">>

\* characters a chatJid is made of here: one the sanitizer keeps as it is,
\* the dot, the underscore, and one (the slash) the sanitizer replaces
JidChars == {"1", ".", "_", "/"}

\* the class [a-zA-Z0-9@._:-], as far as JidChars goes
KeptChars == {"1", "."}

RECURSIVE JidsUpTo(_)
JidsUpTo(n) ==
  IF n = 0 THEN {<<>>}
  ELSE JidsUpTo(n - 1) \cup {Append(j, c) : j \in JidsUpTo(n - 1), c \in JidChars}

\* a chatJid is not empty
ChatJids == JidsUpTo(MaxJidLen) \ {<<>>}

GroupFolders == {"main", "family"}

\* chatJid.replace(/[^a-zA-Z0-9@._:-]/g, '_')
SanitizeJid(chatJid) ==
  [i \in 1..Len(chatJid) |-> IF chatJid[i] \in KeptChars THEN chatJid[i] ELSE "_"]

\* path.join(dir, name) for a name without separators: the result is
\* normalised, so '' and '.' name dir itself and '..' its parent
PathJoin(dir, name) ==
  IF name = <<>> \/ name = <<".">> THEN dir
  ELSE IF name = <<".", ".">> THEN SubSeq(dir, 1, Len(dir) - 1)
  ELSE Append(dir, name)

\* the value prepareIpcDirs returns
IpcDirsOf(groupFolder, chatJid) ==
  LET groupIpcDir == DATA_DIR \o <<"ipc", groupFolder>>
  IN [ipcDir |-> groupIpcDir,
      inputDir |-> PathJoin(Append(groupIpcDir, "input"), SanitizeJid(chatJid))]

\* an invocation starts for (groupFolder, chatJid) and prepares its directories
PrepareIpcDirs(slot, groupFolder, chatJid) ==
  /\ ipcDirs[slot] = <<>>
  /\ ipcDirs' = [ipcDirs EXCEPT ![slot] =
                   <<[groupFolder |-> groupFolder, chatJid |-> chatJid,
                      dirs |-> IpcDirsOf(groupFolder, chatJid)]>>]
  /\ UNCHANGED <<inputVars, lidToPhoneMap, lookupVars, telegramVars, configVars, connectVars, inboundVars,
                 channelVars, runVars, stderrVars>>

\* the invocation is over
InvocationEnds(slot) ==
  /\ ipcDirs[slot] # <<>>
  /\ ipcDirs' = [ipcDirs EXCEPT ![slot] = <<>>]
  /\ UNCHANGED <<inputVars, lidToPhoneMap, lookupVars, telegramVars, configVars, connectVars, inboundVars,
                 channelVars, runVars, stderrVars>>

InitIpc ==
  /\ NoRun
  /\ ChannelNew
  /\ TelegramNew
  /\ InboundNew
  /\ timeoutConfig = DefaultConfig
  /\ ASSISTANT_HAS_OWN_NUMBER = FALSE
  /\ failuresLeft = 0

NextIpc ==
  \/ \E slot \in Invocations, groupFolder \in GroupFolders, chatJid \in ChatJids :
       PrepareIpcDirs(slot, groupFolder, chatJid)
  \/ \E slot \in Invocations : InvocationEnds(slot)

SpecIpc == InitIpc /\ [][NextIpc]_vars

\* C29: two invocations in progress together for different chatJids of one
\* group folder have different input directories.
C29_InputDirsDistinct ==
  \A a, b \in Invocations :
    (/\ ipcDirs[a] # <<>>
     /\ ipcDirs[b] # <<>>
     /\ ipcDirs[a][1].groupFolder = ipcDirs[b][1].groupFolder
     /\ ipcDirs[a][1].chatJid # ipcDirs[b][1].chatJid)
      => ipcDirs[a][1].dirs.inputDir # ipcDirs[b][1].dirs.inputDir

-----------------------------------------------------------------------------
(* TelegramChannel: connect, pollLoop, sendMessage, disconnect.  An await  *)
(* of a Bot API call is a request in flight that Telegram later answers or *)
(* fails.                                                                  *)

\* TelegramChannel.MAX_LENGTH (4096), scaled
TG_MAX_LENGTH == 2

TgJid == <<"tg:", "123">>

\* jid.replace(/^tg:/, "")
NumericIdOf(jid) == IF jid # <<>> /\ Head(jid) = "tg:" THEN Tail(jid) ELSE jid

\* The texts given to sendMessage: one that fits a message, one that does not.
TgTexts == { <<"h">>, <<"h", "e", "y">> }

otherVars == <<runVars, stderrVars, channelVars, inputVars, lidToPhoneMap,
               lookupVars, ipcDirs, configVars, connectVars, inboundVars>>

\* Variant with a defect: a part runs one character into the next.
TgChunk_Overlaps(text, i) ==
  IF Len(text) <= TG_MAX_LENGTH THEN text ELSE Slice(text, i, i + TG_MAX_LENGTH + 1)

\* the part of text the request of a sendMessage call at position i carries
TgChunk(text, i) ==
  IF Len(text) <= TG_MAX_LENGTH THEN text ELSE Slice(text, i, i + TG_MAX_LENGTH)

\* sendMessage (lines 285-306), up to its first await
TgSendMessage(text) ==
  /\ Len(tgCalls) < MaxTgMsgs
  /\ tgCalls' = Append(tgCalls,
                  [text |-> text, i |-> 0,
                   state |-> IF tgBot = 0 THEN "dropped" ELSE "sending"])
  /\ UNCHANGED <<tgBot, tgStopping, tgOffset, tgLoops, tgDelivered, otherVars>>

\* bot.api.sendMessage resolves: the call returns, or goes on with the next
\* part, which fails on this.bot.api when the bot is gone by then
TgSendOk(k) ==
  /\ k \in 1..Len(tgCalls)
  /\ tgCalls[k].state = "sending"
  /\ LET call == tgCalls[k]
         next == call.i + TG_MAX_LENGTH
     IN /\ tgDelivered' = Append(tgDelivered,
                                 [call |-> k, chat |-> NumericIdOf(TgJid),
                                  text |-> TgChunk(call.text, call.i)])
        /\ tgCalls' = [tgCalls EXCEPT ![k] =
             IF Len(call.text) <= TG_MAX_LENGTH \/ next >= Len(call.text)
               THEN [call EXCEPT !.state = "sent"]
               ELSE IF tgBot = 0
                      THEN [call EXCEPT !.i = next, !.state = "failed"]
                      ELSE [call EXCEPT !.i = next]]
  /\ UNCHANGED <<tgBot, tgStopping, tgOffset, tgLoops, otherVars>>

\* bot.api.sendMessage rejects: the catch logs the failure and the call returns
TgSendFail(k) ==
  /\ k \in 1..Len(tgCalls)
  /\ tgCalls[k].state = "sending"
  /\ tgCalls' = [tgCalls EXCEPT ![k] = [@ EXCEPT !.state = "failed"]]
  /\ UNCHANGED <<tgBot, tgStopping, tgOffset, tgLoops, tgDelivered, otherVars>>

\* the head of the while loop of pollLoop (lines 253-256), up to the await of
\* getUpdates; with no bot the call throws, which is not a 409: wait 3 s
LoopTop ==
  IF tgStopping THEN "ended"
  ELSE IF tgBot = 0 THEN "sleeping"
  ELSE "polling"

\* connect() (lines 223-243), up to the await of bot.init()
TgConnect ==
  /\ Len(tgLoops) < MaxTgConnects
  /\ tgStopping' = FALSE
  /\ tgBot' = Len(tgLoops) + 1
  /\ tgLoops' = Append(tgLoops, "init")
  /\ UNCHANGED <<tgOffset, tgCalls, tgDelivered, otherVars>>

\* bot.init() resolves; this.bot.api.deleteWebhook throws when the bot is gone
TgInitOk(l) ==
  /\ l \in 1..Len(tgLoops)
  /\ tgLoops[l] = "init"
  /\ tgLoops' = [tgLoops EXCEPT ![l] = IF tgBot = 0 THEN "rejected" ELSE "webhook"]
  /\ UNCHANGED <<tgBot, tgStopping, tgOffset, tgCalls, tgDelivered, otherVars>>

\* bot.init() or deleteWebhook rejects: connect() rejects
TgConnectFails(l) ==
  /\ l \in 1..Len(tgLoops)
  /\ tgLoops[l] \in {"init", "webhook"}
  /\ tgLoops' = [tgLoops EXCEPT ![l] = "rejected"]
  /\ UNCHANGED <<tgBot, tgStopping, tgOffset, tgCalls, tgDelivered, otherVars>>

\* deleteWebhook resolves: this.bot.botInfo throws when the bot is gone, else
\* pollLoop() is started and connect() returns
TgWebhookOk(l) ==
  /\ l \in 1..Len(tgLoops)
  /\ tgLoops[l] = "webhook"
  /\ tgLoops' = [tgLoops EXCEPT ![l] = IF tgBot = 0 THEN "rejected" ELSE LoopTop]
  /\ UNCHANGED <<tgBot, tgStopping, tgOffset, tgCalls, tgDelivered, otherVars>>

\* getUpdates resolves with n updates (lines 261-268): the offset moves past
\* each, and each is awaited in handleUpdate (which throws, caught, with no bot)
TgPollReturns(l, n) ==
  /\ l \in 1..Len(tgLoops)
  /\ tgLoops[l] = "polling"
  /\ n \in 0..1
  /\ tgOffset + n <= MaxTgUpdates
  /\ tgOffset' = tgOffset + n
  /\ tgLoops' = [tgLoops EXCEPT ![l] =
                   IF n = 0 \/ tgBot = 0 THEN LoopTop ELSE "handling"]
  /\ UNCHANGED <<tgBot, tgStopping, tgCalls, tgDelivered, otherVars>>

\* handleUpdate settles (a rejection is caught and logged)
TgHandled(l) ==
  /\ l \in 1..Len(tgLoops)
  /\ tgLoops[l] = "handling"
  /\ tgLoops' = [tgLoops EXCEPT ![l] = LoopTop]
  /\ UNCHANGED <<tgBot, tgStopping, tgOffset, tgCalls, tgDelivered, otherVars>>

\* getUpdates rejects (lines 269-279): break when stopping, else wait
TgPollFails(l) ==
  /\ l \in 1..Len(tgLoops)
  /\ tgLoops[l] = "polling"
  /\ tgLoops' = [tgLoops EXCEPT ![l] = IF tgStopping THEN "ended" ELSE "sleeping"]
  /\ UNCHANGED <<tgBot, tgStopping, tgOffset, tgCalls, tgDelivered, otherVars>>

\* the wait of 5 s or 3 s is over
TgWake(l) ==
  /\ l \in 1..Len(tgLoops)
  /\ tgLoops[l] = "sleeping"
  /\ tgLoops' = [tgLoops EXCEPT ![l] = LoopTop]
  /\ UNCHANGED <<tgBot, tgStopping, tgOffset, tgCalls, tgDelivered, otherVars>>

\* disconnect() (lines 347-353)
TgDisconnect ==
  /\ tgStopping' = TRUE
  /\ tgBot' = 0
  /\ UNCHANGED <<tgOffset, tgLoops, tgCalls, tgDelivered, otherVars>>

InitTelegram ==
  /\ NoRun
  /\ ChannelNew
  /\ TelegramNew
  /\ InboundNew
  /\ timeoutConfig = DefaultConfig
  /\ ASSISTANT_HAS_OWN_NUMBER = FALSE
  /\ failuresLeft = 0

NextTelegram ==
  \/ TgConnect
  \/ \E l \in 1..Len(tgLoops) : TgInitOk(l)
  \/ \E l \in 1..Len(tgLoops) : TgConnectFails(l)
  \/ \E l \in 1..Len(tgLoops) : TgWebhookOk(l)
  \/ \E l \in 1..Len(tgLoops) : \E n \in 0..1 : TgPollReturns(l, n)
  \/ \E l \in 1..Len(tgLoops) : TgHandled(l)
  \/ \E l \in 1..Len(tgLoops) : TgPollFails(l)
  \/ \E l \in 1..Len(tgLoops) : TgWake(l)
  \/ TgDisconnect
  \/ \E text \in TgTexts : TgSendMessage(text)
  \/ \E k \in 1..Len(tgCalls) : TgSendOk(k)
  \/ \E k \in 1..Len(tgCalls) : TgSendFail(k)

SpecTelegram == InitTelegram /\ [][NextTelegram]_vars

\* C21: a message given to the Telegram adapter's sendMessage is never
\* lost: it has been sent, is being sent, or, when the send failed or the
\* adapter was not connected, is kept for a later retry.  The adapter has
\* no place to keep a message, so kept would be a third state of the call.
C21_TelegramRetained ==
  \A k \in 1..Len(tgCalls) : tgCalls[k].state \in {"sent", "sending", "retained"}

-----------------------------------------------------------------------------
(* Output ceiling, secrets and run records.                                *)

\* each captured text is the received text cut at the ceiling, and a flag
\* is up exactly when the received text was longer than the ceiling
CaptureBounded ==
  /\ Len(stdout) <= CONTAINER_MAX_OUTPUT_SIZE
  /\ Len(stderr) <= CONTAINER_MAX_OUTPUT_SIZE
  /\ stdoutTruncated <=> Len(stdout) < Len(fed)
  /\ stderrTruncated <=> Len(stderr) < Len(fedErr)
  /\ stdoutTruncated <=> Len(fed) > CONTAINER_MAX_OUTPUT_SIZE
  /\ stderrTruncated <=> Len(fedErr) > CONTAINER_MAX_OUTPUT_SIZE

\* C25: the captured stdout and the captured stderr are each at most
\* CONTAINER_MAX_OUTPUT_SIZE long, each stream is capped by its own count,
\* a stream's truncated flag is set exactly when characters of that stream
\* were dropped, and a flag that is set stays set.
C25_CaptureCeiling ==
  /\ []CaptureBounded
  /\ [][ /\ stdoutTruncated => stdoutTruncated'
         /\ stderrTruncated => stderrTruncated' ]_vars

\* one stream has lost characters while the other, also written to, is whole
C25_Witness ==
  /\ stderrTruncated
  /\ ~stdoutTruncated
  /\ Len(stdout) = CONTAINER_MAX_OUTPUT_SIZE
  /\ Len(stderr) = CONTAINER_MAX_OUTPUT_SIZE

\* the terminal result carries a truncation flag that is set
ResultFlagsTruncation(r) ==
  /\ "truncated" \in DOMAIN r
  /\ r.truncated = TRUE

\* C26: when the worker wrote more than the ceiling, the terminal result
\* returned to the caller has a truncation flag set.
C26_TruncationInResult ==
  (result # NoResult /\ (stdoutTruncated \/ stderrTruncated))
    => ResultFlagsTruncation(result)

\* C27: the captured stdout is the output up to the ceiling, nothing inside
\* it lost, so every complete pair in it is there for the batch parse; and
\* in streaming mode every complete pair in it has been taken by the scan.
C27_PairsInCapturedPrefix ==
  /\ stdout = Slice(fed, 0, CONTAINER_MAX_OUTPUT_SIZE)
  /\ onOutput => IsPrefix(ScanLoop(stdout).out, framed)

\* streaming mode, the capture was cut inside the second pair, and the
\* first pair, whole in the captured text, was parsed
C27_Witness ==
  /\ onOutput
  /\ stdoutTruncated
  /\ wout = <<>>
  /\ Len(ScanLoop(stdout).out) = 1
  /\ ScanLoop(stdout).out[1].ok
  /\ Len(framed) = 2
  /\ framed[1] = ScanLoop(stdout).out[1]

\* C28: the secrets are on the input object for the stdin write only: the
\* object holds none at any later point, and no run record that dumps the
\* input holds any.
C28_SecretsScrubbed ==
  /\ input.secrets = "absent"
  /\ \A i \in 1..Len(runLog) :
       \A j \in 1..Len(runLog[i].input) : runLog[i].input[j].secrets = "absent"

\* the secrets went to stdin, and a run record has dumped the input
C28_Witness ==
  /\ stdinWritten # <<>>
  /\ stdinWritten[1].secrets = "env"
  /\ result # NoResult
  /\ \E i \in 1..Len(runLog) : runLog[i].input # <<>>

\* C30 as stated: whenever the result is resolved, one run record has been
\* written.
C30_RecordBeforeResult ==
  result # NoResult => Len(runLog) = 1

\* C30: at most one run record is written per invocation; a result the
\* close handler resolves (completed, non-zero exit, timeout) is resolved
\* with the record written; after a spawn error the result is resolved by
\* the error handler and the record is written by the close handler that
\* follows.
C30_RecordPerInvocation ==
  /\ Len(runLog) <= 1
  /\ (result # NoResult /\ result # SpawnError) => Len(runLog) = 1
  /\ pendingResolve # NoResult => Len(runLog) = 1
  /\ agent = "closed" => Len(runLog) = 1

\* a spawn error was resolved, and the close handler has written the record
C30_Witness ==
  /\ result = SpawnError
  /\ agent = "closed"
  /\ Len(runLog) = 1
  /\ runLog[1].kind = "run"

-----------------------------------------------------------------------------
(* The duration of the timeout timer, for every configuration.             *)

TimeoutConfigs ==
  [group : {<<>>} \cup {<<t>> : t \in 0..MaxConfigTicks},
   global : 1..MaxConfigTicks,
   idle : 0..MaxConfigTicks]

\* setTimeout(killOnTimeout, timeoutMs) (line 772)
ArmTimeout ==
  /\ armedTimeout = <<>>
  /\ armedTimeout' = <<TimeoutMsOf(timeoutConfig)>>
  /\ UNCHANGED <<timeoutConfig, runVars, stderrVars, channelVars, inputVars,
                 lidToPhoneMap, lookupVars, ipcDirs, telegramVars, connectVars,
                 inboundVars>>

InitTimeout ==
  /\ NoRun
  /\ ChannelNew
  /\ TelegramNew
  /\ InboundNew
  /\ timeoutConfig \in TimeoutConfigs
  /\ ASSISTANT_HAS_OWN_NUMBER = FALSE
  /\ failuresLeft = 0

NextTimeout == ArmTimeout

SpecTimeout == InitTimeout /\ [][NextTimeout]_vars

\* C32: the timer is armed with the larger of the configured timeout (the
\* group's own when it has one, else the global one) and the idle timeout
\* plus 30 s, and so never with less than the idle timeout plus 30 s.
C32_TimeoutFloor ==
  armedTimeout # <<>> =>
    LET group == timeoutConfig.group
        configured == IF group # <<>> /\ group[1] # 0
                        THEN group[1] ELSE timeoutConfig.global
        floor == timeoutConfig.idle + IdleMargin
    IN /\ armedTimeout[1] >= floor
       /\ armedTimeout[1] >= configured
       /\ armedTimeout[1] \in {floor, configured}

\* a group whose own timeout is below the floor got the floor
C32_Witness ==
  /\ armedTimeout # <<>>
  /\ timeoutConfig.group # <<>>
  /\ timeoutConfig.group[1] > 0
  /\ timeoutConfig.group[1] < timeoutConfig.idle + IdleMargin
  /\ armedTimeout[1] = timeoutConfig.idle + IdleMargin
  /\ armedTimeout[1] > timeoutConfig.group[1]

-----------------------------------------------------------------------------
(* The idle clock and the terminal result in streaming mode.               *)

\* C33: every parsed streamed event restarts the timer for a full period,
\* a chunk that completes no well-formed event leaves the timer as it is,
\* and the timer never fires earlier than one full period after the most
\* recent parsed event.
C33_EventRestartsIdleClock ==
  [][ /\ Parsed' # Parsed => (timeout' = timeoutMs /\ sinceEvent' = 0)
      /\ (fed' # fed /\ Parsed' = Parsed) => timeout' = timeout
      /\ (timedOut' /\ ~timedOut) => sinceEvent >= timeoutMs ]_vars

\* the worker streamed an event and was killed for idleness later than one
\* period after its spawn, having also written text that is no event
C33_Witness ==
  /\ timedOut
  /\ Len(Parsed) = 1
  /\ Len(framed) = 2
  /\ sinceSpawn > timeoutMs

\* C36: in streaming mode the terminal result is never resolved while an
\* event handed to the delivery chain is still waiting or an onOutput call
\* is still pending, whatever the outcome.
C36_ResultAfterDeliveries ==
  (onOutput /\ result # NoResult) => (chainQ = <<>> /\ inflight = NoOutput)

-----------------------------------------------------------------------------
(* The prefix and the drain lock of the outgoing queue.                    *)

\* how many times the assistant-name prefix occurs in a text
RECURSIVE PrefixCount(_)
PrefixCount(text) ==
  IF Len(text) < 2 THEN 0
  ELSE (IF text[1] = ASSISTANT_NAME /\ text[2] = ": " THEN 1 ELSE 0)
       + PrefixCount(Tail(text))

\* C38: every text handed to the transport, by sendMessage or by a drain,
\* is the caller's text with the assistant-name prefix in front exactly
\* once when the destination is a group and the number is shared, and the
\* caller's text as it is otherwise.
C38_PrefixExactlyOnce ==
  \A i \in 1..Len(handed) :
    LET item == handed[i].item
        shared == ~ASSISTANT_HAS_OWN_NUMBER /\ EndsWith(item.jid, "@g.us")
        body == IF shared THEN SubSeq(item.text, 3, Len(item.text)) ELSE item.text
    IN /\ PrefixCount(item.text) = (IF shared THEN 1 ELSE 0)
       /\ shared => SubSeq(item.text, 1, 2) = <<ASSISTANT_NAME, ": ">>
       /\ \E k \in 1..Len(accepted) : accepted[k] = item /\ body = TextOf(k)

\* on a shared number a group message went to the transport twice, first
\* from sendMessage, then, its send having failed, from a drain; and a
\* message queued while disconnected went out by a drain
C38_Witness ==
  /\ ~ASSISTANT_HAS_OWN_NUMBER
  /\ \E i, j \in 1..Len(handed) :
       /\ i < j
       /\ handed[i].item = handed[j].item
       /\ handed[i].by = "sendMessage"
       /\ handed[j].by = "drain"
       /\ EndsWith(handed[i].item.jid, "@g.us")
  /\ \E j \in 1..Len(handed) :
       /\ handed[j].by = "drain"
       /\ \A i \in 1..Len(handed) :
            handed[i].item = handed[j].item => handed[i].by = "drain"

\* C39: whenever no flushOutgoingQueue call is under way (none awaits a
\* send), the flushing flag is false, however the last drain ended.
C39_FlushingReleased ==
  drainSends = {} => ~flushing

\* a drain has ended by a send failure, the flag is down, and there is an
\* item in the queue for the next drain
C39_Witness ==
  /\ ~flushing
  /\ drainSends = {}
  /\ outgoingQueue # <<>>
  /\ \E j \in 1..Len(handed) :
       /\ handed[j].by = "drain"
       /\ handed[j].item \notin Range(sentOk)

-----------------------------------------------------------------------------
(* The Telegram poll loop and message splitting.                           *)

\* C34: at most one getUpdates request is in flight at any time, after any
\* sequence of connect() and disconnect() calls.
C34_SingleGetUpdates ==
  Cardinality({l \in 1..Len(tgLoops) : tgLoops[l] = "polling"}) <= 1

\* the texts the Telegram API accepted for the k-th sendMessage call, in order
TgPartsOf(k) ==
  LET mine == SelectSeq(tgDelivered, LAMBDA d : d.call = k)
  IN [i \in 1..Len(mine) |-> mine[i].text]

RECURSIVE Concat(_)
Concat(parts) == IF parts = <<>> THEN <<>> ELSE Head(parts) \o Concat(Tail(parts))

\* C35: the parts sent for a sendMessage call are non-empty, at most
\* TG_MAX_LENGTH long, consecutive parts of the text in order, all but the
\* last of full length; a call that completes has sent the whole text, in
\* one message when the text is at most TG_MAX_LENGTH long; and every call
\* returns to its caller without throwing.
C35_SplitInOrder ==
  \A k \in 1..Len(tgCalls) :
    LET call == tgCalls[k]
        parts == TgPartsOf(k)
    IN /\ call.state \in {"dropped", "sending", "sent", "failed"}
       /\ \A i \in 1..Len(parts) :
            /\ Len(parts[i]) \in 1..TG_MAX_LENGTH
            /\ i < Len(parts) => Len(parts[i]) = TG_MAX_LENGTH
       /\ IsPrefix(Concat(parts), call.text)
       /\ call.state = "sent" => Concat(parts) = call.text
       /\ Len(call.text) <= TG_MAX_LENGTH => Len(parts) <= 1
       /\ \A d \in Range(tgDelivered) : d.chat = <<"123">>

\* a text longer than the limit went out whole, in two parts, and a short
\* one in one
C35_Witness ==
  /\ \E k \in 1..Len(tgCalls) :
       /\ tgCalls[k].state = "sent"
       /\ Len(tgCalls[k].text) > TG_MAX_LENGTH
       /\ Len(TgPartsOf(k)) = 2
  /\ \E k \in 1..Len(tgCalls) :
       /\ tgCalls[k].state = "sent"
       /\ Len(TgPartsOf(k)) = 1

-----------------------------------------------------------------------------
(* Inbound messages: the messages.upsert handler of the WhatsApp channel   *)
(* (lines 187-275) and the handlers of the Telegram channel (part_001      *)
(* lines 36-215).  A handler runs to its end in one step, except for a     *)
(* voice message, whose handler awaits the transcription after its         *)
(* registry check.                                                         *)

notInboundVars == <<runVars, stderrVars, channelVars, inputVars, lidToPhoneMap,
                    lookupVars, ipcDirs, telegramVars, configVars, connectVars>>

StatusBroadcast == <<"status", "@broadcast">>
OtherPhoneJid == <<"4916", "@s.whatsapp.net">>

\* ctx.chat.id and ctx.from.id: a group chat, and two users, whose private
\* chats have their own ids
TgGroupChat == "-100"
TgOwner == "42"
TgStranger == "43"

\* `tg:${ctx.chat.id}`
TgChatJid(id) == <<"tg:", id>>

\* The chats the host may register.
RegistryKeys == {GroupJid, OtherPhoneJid, TgChatJid(TgGroupChat), TgChatJid(TgOwner)}

\* The host registers or removes a group: registeredGroups() returns the
\* host's present table at every call.
RegistryChanges(jid) ==
  /\ processUp
  /\ registeredGroups' = IF jid \in registeredGroups
                           THEN registeredGroups \ {jid}
                           ELSE registeredGroups \cup {jid}
  /\ UNCHANGED <<voicePending, lastOnMessage, lastDropped, notInboundVars>>

\* Variant with a defect: every chat counts as registered.
GroupOf_AnyChat(groups, chatJid) == TRUE

\* groups[chatJid], as the condition of an if: whether chatJid is a key
GroupOf(groups, chatJid) == chatJid \in groups

\* What translateJid(rawJid) may return (lines 411-436): the id itself when
\* it is no LID or when nothing is known, or the phone JID of the LID.
TranslateOutcomes(jid) ==
  IF ~EndsWith(jid, "@lid") THEN {jid}
  ELSE {jid} \cup {PhoneJidOf(pn) : pn \in ResolverAnswers(jid)}

\* this.opts.onMessage(chatJid, {...}); known tells whether chatJid was a
\* key of registeredGroups() when the handler looked it up
OnMessage(adapter, chatJid, content, known) ==
  lastOnMessage' = <<[adapter |-> adapter, chatJid |-> chatJid,
                      content |-> content, known |-> known]>>

\* the handler returns without calling onMessage
Dropped(adapter, why) ==
  lastDropped' = <<[adapter |-> adapter, why |-> why]>>

\* messages.upsert, one message of the batch (lines 188-273)
WaUpsert(rawJid, chatJid, content) ==
  /\ processUp
  /\ IF rawJid = StatusBroadcast
       THEN /\ chatJid = rawJid
            /\ Dropped("whatsapp", "skipped")
            /\ UNCHANGED <<voicePending, lastOnMessage>>
       ELSE /\ chatJid \in TranslateOutcomes(rawJid)
            /\ IF ~GroupOf(registeredGroups, chatJid)
                 THEN /\ Dropped("whatsapp", "unregistered")
                      /\ UNCHANGED <<voicePending, lastOnMessage>>
                 ELSE IF content = "voice"
                 THEN /\ Cardinality(voicePending) < MaxVoicePending
                      /\ voicePending' = voicePending \cup
                           {[adapter |-> "whatsapp", chatJid |-> chatJid,
                             known |-> chatJid \in registeredGroups]}
                      /\ UNCHANGED <<lastOnMessage, lastDropped>>
                 ELSE /\ OnMessage("whatsapp", chatJid, content,
                                   chatJid \in registeredGroups)
                      /\ UNCHANGED <<voicePending, lastDropped>>
  /\ UNCHANGED <<registeredGroups, notInboundVars>>

\* isAllowedSender (part_001 lines 36-42)
IsAllowedSender(chatId, senderId) ==
  \/ TgChatJid(chatId) \in registeredGroups
  \/ TgChatJid(senderId) \in registeredGroups

\* the handlers that end in storeNonText, by their placeholder
TgNonText == {"[Photo]", "[Video]", "[Audio]", "[Document]", "[Sticker]",
              "[Location]", "[Contact]"}
TgContents == {"text", "command", "voice"} \cup TgNonText

\* An update with a message: the bot.use filter, then the handler of the
\* message's kind (part_001 lines 48-51, 54-215)
TgUpdate(chatId, senderId, content) ==
  /\ processUp
  /\ LET chatJid == TgChatJid(chatId) IN
       IF ~IsAllowedSender(chatId, senderId)
         THEN /\ Dropped("telegram", "filtered")
              /\ UNCHANGED <<voicePending, lastOnMessage>>
       ELSE IF content = "command"
         THEN /\ Dropped("telegram", "skipped")
              /\ UNCHANGED <<voicePending, lastOnMessage>>
       ELSE IF ~GroupOf(registeredGroups, chatJid)
         THEN /\ Dropped("telegram", "unregistered")
              /\ UNCHANGED <<voicePending, lastOnMessage>>
       ELSE IF content = "voice"
         THEN /\ Cardinality(voicePending) < MaxVoicePending
              /\ voicePending' = voicePending \cup
                   {[adapter |-> "telegram", chatJid |-> chatJid,
                     known |-> chatJid \in registeredGroups]}
              /\ UNCHANGED <<lastOnMessage, lastDropped>>
       ELSE /\ OnMessage("telegram", chatJid, content,
                         chatJid \in registeredGroups)
            /\ UNCHANGED <<voicePending, lastDropped>>
  /\ UNCHANGED <<registeredGroups, notInboundVars>>

\* The transcription of a voice message ends, with a transcript, with
\* nothing or by throwing: the message is forwarded in every case
\* (whatsapp.ts lines 231-244, 263; part_001 lines 179-203)
VoiceTranscribed(p, outcome) ==
  /\ processUp
  /\ p \in voicePending
  /\ voicePending' = voicePending \ {p}
  /\ OnMessage(p.adapter, p.chatJid, outcome, p.known)
  /\ UNCHANGED <<registeredGroups, lastDropped, notInboundVars>>

InitInbound ==
  /\ NoRun
  /\ ChannelNew
  /\ TelegramNew
  /\ InboundNew
  /\ timeoutConfig = DefaultConfig
  /\ ASSISTANT_HAS_OWN_NUMBER = FALSE
  /\ failuresLeft = 0

NextInbound ==
  \/ \E jid \in RegistryKeys : RegistryChanges(jid)
  \/ \E rawJid \in {GroupJid, OtherLid, StatusBroadcast},
        chatJid \in {GroupJid, OtherLid, OtherPhoneJid, StatusBroadcast},
        content \in {"text", "image", "video", "voice", "other"} :
        WaUpsert(rawJid, chatJid, content)
  \/ \E chatId \in {TgGroupChat, TgOwner, TgStranger},
        senderId \in {TgOwner, TgStranger}, content \in TgContents :
        TgUpdate(chatId, senderId, content)
  \/ \E p \in voicePending,
        outcome \in {"[Voice: transcript]", "[Voice - unavailable]",
                     "[Voice - failed]"} :
        VoiceTranscribed(p, outcome)

SpecInbound == InitInbound /\ [][NextInbound]_vars

\* C31: every onMessage call carries a chat id that was a key of
\* registeredGroups() when the handler looked it up; no message of a chat
\* that was unregistered at its check reaches onMessage, in either adapter
\* and for every kind of message.
C31_OnlyRegisteredForwarded ==
  /\ \A i \in 1..Len(lastOnMessage) : lastOnMessage[i].known
  /\ \A p \in voicePending : p.known

\* An owner's message in an unregistered Telegram chat passed the filter
\* and was not forwarded, while a LID chat translated to a registered phone
\* JID was.
C31_Witness ==
  /\ lastOnMessage # <<>>
  /\ lastOnMessage[1].chatJid = OtherPhoneJid
  /\ lastDropped # <<>>
  /\ lastDropped[1].adapter = "telegram"
  /\ lastDropped[1].why = "unregistered"

-----------------------------------------------------------------------------
(* The promise of connect().                                               *)

\* C37: the promise connect() returned is resolved at most once, and it is
\* resolved as soon as the connection has opened, whether or not closes
\* and reconnects came before the first 'open'.
C37_ConnectResolvesOnOpen ==
  /\ connectResolves <= 1
  /\ everOpened => connectResolves = 1

=============================================================================
